---- MODULE Spec2Model ----
(***************************************************************************)
(* Checklister: the archive-enabled local client (frontend/src/App.tsx,    *)
(* lines 1-1251).  The model holds the React state the handlers read and   *)
(* write (checklists, route, pendingDelete, deadlineDrafts,                *)
(* openDeadlineKey), one action per handler, and the pure helpers          *)
(* (sortItems, arrayMove, the deadline format test) as operators.          *)
(*                                                                         *)
(* Strings are TLA+ strings; the operations the code performs on their     *)
(* characters (trim, split, the YYYY-MM-DD regular expression,             *)
(* localeCompare) are computed on the character sequence Chars(s).         *)
(*                                                                         *)
(* Item-level handlers are modelled as calls with arbitrary list and item  *)
(* ids, because their guards live in the handlers.  The archive, restore   *)
(* and delete buttons are modelled with the conditions under which         *)
(* renderChecklistCard renders them, because that is where the code puts   *)
(* their guards.  Presentation-only state no handler reads back (theme,    *)
(* collapsedLists, archiveNotice, showCreateModal) is left out.            *)
(***************************************************************************)
EXTENDS Integers, Sequences, FiniteSets, TLC

VARIABLES
    checklists,      \* useState<Checklist[]>: the stored array
    route,           \* 'home' | 'archive'
    pendingDelete,   \* <<>> (null) or <<[id, title]>>
    deadlineDrafts,  \* Record<key, string>, a function on the keys set so far
    openDeadlineKey, \* <<>> (null) or the key <<listId, itemId>>
    displayed,       \* what the last render showed: list id -> sortedItems
    nextListId,      \* makeId(): the next fresh checklist id
    nextItemId,      \* makeId(): the next fresh item id
    lastOp,          \* the last handler call and the return it took
    calls,           \* handler calls so far
    archivedSnap,    \* history: list id -> items when it was last archived
    sortIn,          \* SpecSort: the item array handed to sortItems
    sortOut,         \* SpecSort: mode -> the result of sortItems(sortIn, mode)
    dueIn,           \* SpecDue: a deadline, the clock and the time zone
    dueOut,          \* SpecDue: <<>> or <<isDueToday(deadline)>>
    loadIn,          \* SpecLoad: the value under the storage key
    loadOut,         \* SpecLoad: <<>> or <<what the loader returned>>
    server,          \* backend: the users map (server.ts 70)
    client,          \* remote client: its React state and the stored token
    lastCall,        \* remote client: the last handler, its requests and statuses
    rcalls,          \* remote client and API calls so far
    inflight         \* requests sent or suspended whose continuation has not run

vars == <<checklists, route, pendingDelete, deadlineDrafts, openDeadlineKey,
          displayed, nextListId, nextItemId, lastOp, calls, archivedSnap,
          sortIn, sortOut, dueIn, dueOut, loadIn, loadOut, server, client,
          lastCall, rcalls, inflight>>

appVars == <<checklists, route, pendingDelete, deadlineDrafts, openDeadlineKey,
             displayed, nextListId, nextItemId, lastOp, calls, archivedSnap>>

sortVars == <<sortIn, sortOut>>

dueVars == <<dueIn, dueOut>>

loadVars == <<loadIn, loadOut>>

remoteVars == <<server, client, lastCall, rcalls>>

\* the requests in flight of the specifications with concurrent requests
flightVars == <<inflight>>

\* the variables of the specifications of single functions and of the remote
\* client, which the archive-enabled client never touches
restVars == <<dueVars, loadVars, remoteVars, flightVars>>

\* the parts of the state a specification does not use stay at these values
SortIdle == sortIn = <<>> /\ sortOut = <<>>

DueIdle == dueIn = <<>> /\ dueOut = <<>>

LoadIdle == loadIn = <<>> /\ loadOut = <<>>

RemoteIdle == server = <<>> /\ client = <<>> /\ lastCall = <<>> /\ rcalls = 0

FlightIdle == inflight = <<>>

RestIdle == DueIdle /\ LoadIdle /\ RemoteIdle /\ FlightIdle

(***************************************************************************)
(* Bounds                                                                  *)
(***************************************************************************)
\* checklists created in one run
MaxLists == 2
\* items created in one run
MaxItems == 2
\* handler calls in one run
MaxCalls == 7
\* length of the arrays handed to sortItems in SpecSort
MaxSortLen == 3
\* checklists in a stored array handed to the loaders in SpecLoad
MaxLoadLists == 2
\* items of a checklist in a stored array in SpecLoad
MaxLoadItems == 1
\* requests in one run of SpecApi
MaxApiCalls == 4
\* user events and clock steps in one run of SpecRemote
MaxRemoteCalls == 6

\* SpecItems: the items of the card, and the handler calls made on it
MaxCardItems == 3

MaxItemCalls == 2

\* SpecTenants: the requests of a run with two accounts
MaxTenantCalls == 5

(***************************************************************************)
(* Strings                                                                 *)
(***************************************************************************)
\* null / undefined
Null == "<null>"

D1 == "2024-01-01"
D2 == "2024-01-02"
D3 == "2023-12-31"

\* The characters of each string the model uses.
Chars(s) ==
    CASE s = "" -> <<>>
      [] s = " " -> <<" ">>
      [] s = "a" -> <<"a">>
      [] s = "b" -> <<"b">>
      [] s = " b " -> <<" ", "b", " ">>
      [] s = "T" -> <<"T">>
      [] s = " T " -> <<" ", "T", " ">>
      [] s = "a\n\n b " -> <<"a", "\n", "\n", " ", "b", " ">>
      [] s = D1 -> <<"2", "0", "2", "4", "-", "0", "1", "-", "0", "1">>
      [] s = D2 -> <<"2", "0", "2", "4", "-", "0", "1", "-", "0", "2">>
      [] s = D3 -> <<"2", "0", "2", "3", "-", "1", "2", "-", "3", "1">>
      [] s = " 2024-01-02 " -> <<" ", "2", "0", "2", "4", "-", "0", "1", "-", "0", "2", " ">>
      [] s = "2024-1-1" -> <<"2", "0", "2", "4", "-", "1", "-", "1">>
      [] s = "2024-01-01x" -> <<"2", "0", "2", "4", "-", "0", "1", "-", "0", "1", "x">>
      [] s = "Morning reset" ->
            <<"M", "o", "r", "n", "i", "n", "g", " ", "r", "e", "s", "e", "t">>
      [] s = "Drink a glass of water" ->
            <<"D", "r", "i", "n", "k", " ", "a", " ", "g", "l", "a", "s", "s", " ", "o", "f", " ", "w", "a", "t", "e", "r">>
      [] s = "Review today's plan" ->
            <<"R", "e", "v", "i", "e", "w", " ", "t", "o", "d", "a", "y", "'", "s", " ", "p", "l", "a", "n">>
      [] s = "Empty inbox/follow-ups" ->
            <<"E", "m", "p", "t", "y", " ", "i", "n", "b", "o", "x", "/", "f", "o", "l", "l", "o", "w", "-", "u", "p", "s">>
      [] s = "Ship it checklist" ->
            <<"S", "h", "i", "p", " ", "i", "t", " ", "c", "h", "e", "c", "k", "l", "i", "s", "t">>
      [] s = "Run automated tests" ->
            <<"R", "u", "n", " ", "a", "u", "t", "o", "m", "a", "t", "e", "d", " ", "t", "e", "s", "t", "s">>
      [] s = "Capture release notes" ->
            <<"C", "a", "p", "t", "u", "r", "e", " ", "r", "e", "l", "e", "a", "s", "e", " ", "n", "o", "t", "e", "s">>
      [] s = "Record a quick walkthrough" ->
            <<"R", "e", "c", "o", "r", "d", " ", "a", " ", "q", "u", "i", "c", "k", " ", "w", "a", "l", "k", "t", "h", "r", "o", "u", "g", "h">>

Strings ==
    {"", " ", "a", "b", " b ", "T", " T ", "a\n\n b ", D1, D2, D3,
     " 2024-01-02 ", "2024-1-1", "2024-01-01x",
     "Morning reset", "Drink a glass of water", "Review today's plan",
     "Empty inbox/follow-ups", "Ship it checklist", "Run automated tests",
     "Capture release notes", "Record a quick walkthrough"}

\* The string with the given characters.
Str(cs) == CHOOSE s \in Strings : Chars(s) = cs

IsSpace(c) == c \in {" ", "\n", "\t"}

IsDigit(c) == c \in {"0", "1", "2", "3", "4", "5", "6", "7", "8", "9"}

RECURSIVE TrimStart(_)
TrimStart(cs) ==
    IF cs # <<>> /\ IsSpace(Head(cs)) THEN TrimStart(Tail(cs)) ELSE cs

RECURSIVE TrimEnd(_)
TrimEnd(cs) ==
    IF cs # <<>> /\ IsSpace(cs[Len(cs)]) THEN TrimEnd(SubSeq(cs, 1, Len(cs) - 1)) ELSE cs

\* String.prototype.trim
Trim(s) == Str(TrimEnd(TrimStart(Chars(s))))

\* /^\d{4}-\d{2}-\d{2}$/.test(s)
DeadlineFormatOk(s) ==
    LET cs == Chars(s) IN
    /\ Len(cs) = 10
    /\ \A i \in 1..10 : IF i \in {5, 8} THEN cs[i] = "-" ELSE IsDigit(cs[i])

\* Collation rank of a character: white space, punctuation, digits, letters.
Rank(c) ==
    CASE c = "\n" -> 0 [] c = " " -> 1 [] c = "-" -> 2
      [] c = "0" -> 10 [] c = "1" -> 11 [] c = "2" -> 12 [] c = "3" -> 13
      [] c = "4" -> 14 [] c = "5" -> 15 [] c = "6" -> 16 [] c = "7" -> 17
      [] c = "8" -> 18 [] c = "9" -> 19
      [] c = "a" -> 20 [] c = "b" -> 21 [] c = "T" -> 22 [] c = "x" -> 23

RECURSIVE CompareChars(_, _)
CompareChars(a, b) ==
    IF a = <<>> /\ b = <<>> THEN 0
    ELSE IF a = <<>> THEN -1
    ELSE IF b = <<>> THEN 1
    ELSE IF Rank(Head(a)) < Rank(Head(b)) THEN -1
    ELSE IF Rank(Head(a)) > Rank(Head(b)) THEN 1
    ELSE CompareChars(Tail(a), Tail(b))

\* a.localeCompare(b): negative, zero or positive
localeCompare(a, b) == CompareChars(Chars(a), Chars(b))

(***************************************************************************)
(* Sort/Order engine                                                       *)
(***************************************************************************)
SortModes == {"manual", "deadline-asc", "deadline-desc"}

\* JavaScript truthiness of item.deadline
HasDeadline(item) == item.deadline # Null /\ item.deadline # ""

Reverse(s) == [i \in 1..Len(s) |-> s[Len(s) + 1 - i]]

\* (a, b) => (a.deadline ?? '').localeCompare(b.deadline ?? '')
deadlineCompare(a, b) ==
    localeCompare(IF a.deadline = Null THEN "" ELSE a.deadline,
                  IF b.deadline = Null THEN "" ELSE b.deadline)

\* x placed behind every element of the sorted s that does not compare after it
InsertSorted(s, x) ==
    LET keep == {i \in 1..Len(s) : deadlineCompare(s[i], x) <= 0}
        k == Cardinality(keep)
    IN  SubSeq(s, 1, k) \o <<x>> \o SubSeq(s, k + 1, Len(s))

\* Array.prototype.sort with deadlineCompare: stable
RECURSIVE SortByDeadline(_)
SortByDeadline(s) ==
    IF s = <<>> THEN <<>>
    ELSE InsertSorted(SortByDeadline(SubSeq(s, 1, Len(s) - 1)), s[Len(s)])

\* A sort that orders equal deadlines the other way round (descending by a
\* negated comparator instead of sort-then-reverse).
sortItems_NegatedComparator(items, mode) ==
    IF mode = "manual" THEN items
    ELSE LET withDeadline == SelectSeq(items, HasDeadline)
             withoutDeadline == SelectSeq(items, LAMBDA it : ~HasDeadline(it))
             asc == SortByDeadline(withDeadline)
             desc == Reverse(SortByDeadline(Reverse(withDeadline)))
         IN  (IF mode = "deadline-desc" THEN desc ELSE asc) \o withoutDeadline

\* A sort that keeps undated items where they were among the first positions.
sortItems_UndatedFirst(items, mode) ==
    IF mode = "manual" THEN items
    ELSE LET withDeadline == SelectSeq(items, HasDeadline)
             withoutDeadline == SelectSeq(items, LAMBDA it : ~HasDeadline(it))
             sorted == SortByDeadline(withDeadline)
         IN  withoutDeadline \o (IF mode = "deadline-desc" THEN Reverse(sorted) ELSE sorted)

sortItems(items, mode) ==
    IF mode = "manual" THEN items
    ELSE LET withDeadline == SelectSeq(items, HasDeadline)
             withoutDeadline == SelectSeq(items, LAMBDA it : ~HasDeadline(it))
             sorted == SortByDeadline(withDeadline)
         IN  (IF mode = "deadline-desc" THEN Reverse(sorted) ELSE sorted)
             \o withoutDeadline

(***************************************************************************)
(* Checklist state                                                         *)
(***************************************************************************)
ListIds == 1..MaxLists

ItemIds == 1..MaxItems

\* new Date().toISOString()
Timestamp == "2026-01-01T00:00:00.000Z"

\* the values typed into the title, prefill, add-item and deadline fields
TitleInputs == {" ", " T "}

PrefillInputs == {"", "a\n\n b "}

ItemDraftInputs == {" ", " b "}

DeadlineDraftInputs == {D1, " 2024-01-02 ", "2024-01-01x"}

\* (list.archived ?? false) || !!list.archivedAt
IsArchived(list) == list.archived \/ (list.archivedAt # Null /\ list.archivedAt # "")

\* checklists.find((list) => list.id === listId): its index, 0 when undefined
FindList(cl, listId) ==
    LET hits == {i \in 1..Len(cl) : cl[i].id = listId}
    IN  IF hits = {} THEN 0 ELSE CHOOSE i \in hits : \A j \in hits : i <= j

\* items.findIndex((item) => item.id === id), 1-based, 0 for -1
FindItem(items, id) ==
    LET hits == {i \in 1..Len(items) : items[i].id = id}
    IN  IF hits = {} THEN 0 ELSE CHOOSE i \in hits : \A j \in hits : i <= j

\* An archive test that lets every call through.
isArchivedList_AlwaysFalse(listId) == FALSE

isArchivedList(listId) ==
    LET idx == FindList(checklists, listId)
    IN  idx # 0 /\ IsArchived(checklists[idx])

activeLists(cl) == SelectSeq(cl, LAMBDA list : ~IsArchived(list))

archivedLists(cl) == SelectSeq(cl, IsArchived)

ListIdsOf(cl) == {cl[i].id : i \in 1..Len(cl)}

ItemIdsOf(items) == {items[i].id : i \in 1..Len(items)}

\* prev.map((list) => list.id === listId ? f(list) : list)
MapList(cl, listId, f(_)) ==
    [i \in 1..Len(cl) |-> IF cl[i].id = listId THEN f(cl[i]) ELSE cl[i]]

\* list.items.map((item) => item.id === itemId ? f(item) : item)
MapItem(items, itemId, f(_)) ==
    [i \in 1..Len(items) |-> IF items[i].id = itemId THEN f(items[i]) ELSE items[i]]

\* getDeadlineKey: `${listId}:${itemId}`
getDeadlineKey(listId, itemId) == <<listId, itemId>>

\* deadlineDrafts[key] ?? ''
DraftOf(key) == IF key \in DOMAIN deadlineDrafts THEN deadlineDrafts[key] ELSE ""

\* { ...prev, [key]: value }
PutDraft(drafts, key, value) ==
    [k \in DOMAIN drafts \cup {key} |-> IF k = key THEN value ELSE drafts[k]]

(***************************************************************************)
(* Rendering                                                               *)
(***************************************************************************)
\* The array handed to sortItems sorted in place (items.sort(...)).
ItemsAfterSort_InPlace(items, mode) == sortItems(items, mode)

\* What the array handed to sortItems holds once it returned: filter() copies,
\* so the argument is as it was.
ItemsAfterSort(items, mode) == items

\* the lists renderChecklistCard is mapped over on a route
Shown(list, r) == IF r = "archive" THEN IsArchived(list) ELSE ~IsArchived(list)

\* the stored array after a render of route r
Rendered(cl, r) ==
    [i \in 1..Len(cl) |->
        IF Shown(cl[i], r)
        THEN [cl[i] EXCEPT !.items = ItemsAfterSort(cl[i].items, cl[i].sortMode)]
        ELSE cl[i]]

\* sortedItems of every rendered card
View(cl, r) ==
    [id \in {cl[i].id : i \in {j \in 1..Len(cl) : Shown(cl[j], r)}} |->
        LET list == cl[FindList(cl, id)] IN sortItems(list.items, list.sortMode)]

\* setChecklists / setRoute followed by the render they trigger
Commit(cl, r) ==
    /\ checklists' = Rendered(cl, r)
    /\ displayed' = View(cl, r)
    /\ route' = r

Op(op, listId, ret) == [op |-> op, list |-> listId, ret |-> ret]

(***************************************************************************)
(* Initial state: an empty localStorage                                    *)
(***************************************************************************)
AppInit ==
    /\ checklists = <<>>
    /\ route = "home"
    /\ pendingDelete = <<>>
    /\ deadlineDrafts = <<>>
    /\ openDeadlineKey = <<>>
    /\ displayed = <<>>
    /\ nextListId = 1
    /\ nextItemId = 1
    /\ lastOp = Op("init", 0, "applied")
    /\ calls = 0
    /\ archivedSnap = <<>>

Init ==
    /\ AppInit
    /\ sortIn = <<>>
    /\ sortOut = <<>>
    /\ RestIdle

(***************************************************************************)
(* Handlers                                                                *)
(***************************************************************************)
RECURSIVE SplitLines(_)
\* value.split('\n') on a character sequence
SplitLines(cs) ==
    LET breaks == {i \in 1..Len(cs) : cs[i] = "\n"}
    IN  IF breaks = {} THEN <<cs>>
        ELSE LET k == CHOOSE i \in breaks : \A j \in breaks : i <= j
             IN  <<SubSeq(cs, 1, k - 1)>> \o SplitLines(SubSeq(cs, k + 1, Len(cs)))

\* prefillItems.split('\n').map((line) => line.trim()).filter(Boolean)
PrefillTexts(prefill) ==
    LET lines == SplitLines(Chars(prefill))
        trimmed == [i \in 1..Len(lines) |-> Trim(Str(lines[i]))]
    IN  SelectSeq(trimmed, LAMBDA t : t # "")

NewItem(id, text) == [id |-> id, text |-> text, done |-> FALSE, deadline |-> Null]

\* a create that adds the new checklist after the existing ones
handleCreateChecklist_Appends(newTitle, prefillItems) ==
    LET title == Trim(newTitle)
        texts == PrefillTexts(prefillItems)
        items == [i \in 1..Len(texts) |-> NewItem(nextItemId + i - 1, texts[i])]
        nextChecklist == [id |-> nextListId, title |-> title, items |-> items,
                          sortMode |-> "manual", pinned |-> FALSE,
                          archived |-> FALSE, archivedAt |-> Null]
    IN  IF title = ""
        THEN /\ lastOp' = Op("create", 0, "blank")
             /\ UNCHANGED <<checklists, route, displayed, nextListId, nextItemId,
                            pendingDelete, deadlineDrafts, openDeadlineKey, archivedSnap>>
        ELSE /\ nextListId <= MaxLists
             /\ nextItemId + Len(texts) - 1 <= MaxItems
             /\ Commit(checklists \o <<nextChecklist>>, route)
             /\ nextListId' = nextListId + 1
             /\ nextItemId' = nextItemId + Len(texts)
             /\ lastOp' = Op("create", nextListId, "applied")
             /\ UNCHANGED <<pendingDelete, deadlineDrafts, openDeadlineKey, archivedSnap>>

handleCreateChecklist(newTitle, prefillItems) ==
    LET title == Trim(newTitle)
        texts == PrefillTexts(prefillItems)
        items == [i \in 1..Len(texts) |-> NewItem(nextItemId + i - 1, texts[i])]
        nextChecklist == [id |-> nextListId, title |-> title, items |-> items,
                          sortMode |-> "manual", pinned |-> FALSE,
                          archived |-> FALSE, archivedAt |-> Null]
    IN  IF title = ""
        THEN /\ lastOp' = Op("create", 0, "blank")
             /\ UNCHANGED <<checklists, route, displayed, nextListId, nextItemId,
                            pendingDelete, deadlineDrafts, openDeadlineKey, archivedSnap>>
        ELSE /\ nextListId <= MaxLists
             /\ nextItemId + Len(texts) - 1 <= MaxItems
             /\ Commit(<<nextChecklist>> \o checklists, route)
             /\ nextListId' = nextListId + 1
             /\ nextItemId' = nextItemId + Len(texts)
             /\ lastOp' = Op("create", nextListId, "applied")
             /\ UNCHANGED <<pendingDelete, deadlineDrafts, openDeadlineKey, archivedSnap>>

\* an item handler that returned before any setter
Returned(op, listId, ret) ==
    /\ lastOp' = Op(op, listId, ret)
    /\ UNCHANGED <<checklists, route, displayed, nextListId, nextItemId,
                   pendingDelete, deadlineDrafts, openDeadlineKey, archivedSnap>>

handleAddItem(listId, draft) ==
    LET text == Trim(draft)
        add(list) == [list EXCEPT !.items = @ \o <<NewItem(nextItemId, text)>>]
    IN  IF isArchivedList(listId) THEN Returned("addItem", listId, "archived")
        ELSE IF text = "" THEN Returned("addItem", listId, "blank")
        ELSE /\ nextItemId <= MaxItems
             /\ Commit(MapList(checklists, listId, add), route)
             /\ nextItemId' = nextItemId + 1
             /\ lastOp' = Op("addItem", listId, "applied")
             /\ UNCHANGED <<nextListId, pendingDelete, deadlineDrafts,
                            openDeadlineKey, archivedSnap>>

\* A toggle that flips every item of the checklist.
handleToggleItem_AllItems(listId, itemId) ==
    LET flip(item) == [item EXCEPT !.done = ~@]
        toggle(list) == [list EXCEPT !.items = [k \in 1..Len(@) |-> flip(@[k])]]
    IN  IF isArchivedList(listId) THEN Returned("toggleItem", listId, "archived")
        ELSE /\ Commit(MapList(checklists, listId, toggle), route)
             /\ lastOp' = Op("toggleItem", listId, "applied")
             /\ UNCHANGED <<nextListId, nextItemId, pendingDelete, deadlineDrafts,
                            openDeadlineKey, archivedSnap>>

handleToggleItem(listId, itemId) ==
    LET flip(item) == [item EXCEPT !.done = ~@]
        toggle(list) == [list EXCEPT !.items = MapItem(@, itemId, flip)]
    IN  IF isArchivedList(listId) THEN Returned("toggleItem", listId, "archived")
        ELSE /\ Commit(MapList(checklists, listId, toggle), route)
             /\ lastOp' = Op("toggleItem", listId, "applied")
             /\ UNCHANGED <<nextListId, nextItemId, pendingDelete, deadlineDrafts,
                            openDeadlineKey, archivedSnap>>

handleDeleteItem(listId, itemId) ==
    LET remove(list) ==
            [list EXCEPT !.items = SelectSeq(@, LAMBDA item : item.id # itemId)]
    IN  IF isArchivedList(listId) THEN Returned("deleteItem", listId, "archived")
        ELSE /\ Commit(MapList(checklists, listId, remove), route)
             /\ lastOp' = Op("deleteItem", listId, "applied")
             /\ UNCHANGED <<nextListId, nextItemId, pendingDelete, deadlineDrafts,
                            openDeadlineKey, archivedSnap>>

handleClearCompleted(listId) ==
    LET clear(list) == [list EXCEPT !.items = SelectSeq(@, LAMBDA item : ~item.done)]
    IN  IF isArchivedList(listId) THEN Returned("clearCompleted", listId, "archived")
        ELSE /\ Commit(MapList(checklists, listId, clear), route)
             /\ lastOp' = Op("clearCompleted", listId, "applied")
             /\ UNCHANGED <<nextListId, nextItemId, pendingDelete, deadlineDrafts,
                            openDeadlineKey, archivedSnap>>

\* The Delete button of a card: rendered on the archive route, where the cards
\* are those of archivedLists.
handleDeleteChecklist(listId, title) ==
    /\ route = "archive"
    /\ \E i \in 1..Len(checklists) :
          /\ checklists[i].id = listId
          /\ checklists[i].title = title
          /\ IsArchived(checklists[i])
    /\ pendingDelete' = <<[id |-> listId, title |-> title]>>
    /\ lastOp' = Op("deleteChecklist", listId, "applied")
    /\ UNCHANGED <<checklists, route, displayed, nextListId, nextItemId,
                   deadlineDrafts, openDeadlineKey, archivedSnap>>

\* the keys of f other than those in gone
Without(f, gone) == [k \in DOMAIN f \ gone |-> f[k]]

\* A filter that compares the title the dialog shows instead of the id.
removeChecklist_ByTitle(cl, pending) ==
    SelectSeq(cl, LAMBDA list : list.title # pending.title)

\* prev.filter((list) => list.id !== pendingDelete.id)
removeChecklist(cl, pending) == SelectSeq(cl, LAMBDA list : list.id # pending.id)

\* The dialog's Delete button: the dialog is rendered while pendingDelete is set.
confirmDeleteChecklist ==
    /\ pendingDelete # <<>>
    /\ LET id == pendingDelete[1].id
           kept == removeChecklist(checklists, pendingDelete[1])
       IN  /\ Commit(kept, route)
           /\ lastOp' = Op("confirmDelete", id, "applied")
           /\ archivedSnap' = Without(archivedSnap, {id})
    /\ pendingDelete' = <<>>
    /\ UNCHANGED <<nextListId, nextItemId, deadlineDrafts, openDeadlineKey>>

\* The dialog's Cancel button.
cancelDeleteChecklist ==
    /\ pendingDelete # <<>>
    /\ pendingDelete' = <<>>
    /\ lastOp' = Op("cancelDelete", 0, "applied")
    /\ UNCHANGED <<checklists, route, displayed, nextListId, nextItemId,
                   deadlineDrafts, openDeadlineKey, archivedSnap>>

\* { ...list, archived: true, archivedAt: new Date().toISOString(), pinned: false }
archiveFields(list) ==
    [list EXCEPT !.archived = TRUE, !.archivedAt = Timestamp, !.pinned = FALSE]

\* The Archive button of a card: rendered on the home route, where the cards
\* are those of activeLists.
handleArchiveChecklist(listId) ==
    LET idx == FindList(checklists, listId)
    IN  /\ route = "home"
        /\ idx # 0
        /\ ~IsArchived(checklists[idx])
        /\ Commit(MapList(checklists, listId, archiveFields), route)
        /\ lastOp' = Op("archive", listId, "applied")
        /\ archivedSnap' = [k \in DOMAIN archivedSnap \cup {listId} |->
                               IF k = listId THEN checklists[idx].items
                               ELSE archivedSnap[k]]
        /\ UNCHANGED <<nextListId, nextItemId, pendingDelete, deadlineDrafts,
                       openDeadlineKey>>

\* A restore that clears the flag and keeps the timestamp.
restoreFields_KeepsTimestamp(list) == [list EXCEPT !.archived = FALSE]

\* { ...list, archived: false, archivedAt: null }
restoreFields(list) == [list EXCEPT !.archived = FALSE, !.archivedAt = Null]

\* The Restore button of a card: rendered on the archive route.
handleUnarchiveChecklist(listId) ==
    LET idx == FindList(checklists, listId)
    IN  /\ route = "archive"
        /\ idx # 0
        /\ IsArchived(checklists[idx])
        /\ Commit(MapList(checklists, listId, restoreFields), route)
        /\ lastOp' = Op("unarchive", listId, "applied")
        /\ archivedSnap' = Without(archivedSnap, {listId})
        /\ UNCHANGED <<nextListId, nextItemId, pendingDelete, deadlineDrafts,
                       openDeadlineKey>>

\* navigate(target), called with the other route by the header button
navigate(target) ==
    /\ Commit(checklists, target)
    /\ lastOp' = Op("navigate", 0, target)
    /\ UNCHANGED <<nextListId, nextItemId, pendingDelete, deadlineDrafts,
                   openDeadlineKey, archivedSnap>>

(***************************************************************************)
(* Deadline editor                                                         *)
(***************************************************************************)
\* the keys of the item rows there are
RowKeys ==
    {k \in ListIds \X ItemIds :
        \E i \in 1..Len(checklists) :
            checklists[i].id = k[1] /\ k[2] \in ItemIdsOf(checklists[i].items)}

\* the keys of the clear buttons: a row's, or the open editor's
EditorKeys == RowKeys \cup (IF openDeadlineKey = <<>> THEN {} ELSE {openDeadlineKey})

\* checklists.find(...)?.items.find(...)?.deadline ?? ''
CurrentDeadline(listId, itemId) ==
    LET li == FindList(checklists, listId)
        ii == IF li = 0 THEN 0 ELSE FindItem(checklists[li].items, itemId)
    IN  IF ii = 0 \/ checklists[li].items[ii].deadline = Null THEN ""
        ELSE checklists[li].items[ii].deadline

handleStartDeadlineEdit(listId, itemId) ==
    LET key == getDeadlineKey(listId, itemId)
    IN  IF isArchivedList(listId) THEN Returned("startDeadlineEdit", listId, "archived")
        ELSE /\ deadlineDrafts' = PutDraft(deadlineDrafts, key, CurrentDeadline(listId, itemId))
             /\ openDeadlineKey' = key
             /\ lastOp' = Op("startDeadlineEdit", listId, "applied")
             /\ UNCHANGED <<checklists, route, displayed, nextListId, nextItemId,
                            pendingDelete, archivedSnap>>

handleDeadlineDraftChange(listId, itemId, value) ==
    LET key == getDeadlineKey(listId, itemId)
    IN  IF isArchivedList(listId) THEN Returned("deadlineDraftChange", listId, "archived")
        ELSE /\ deadlineDrafts' = PutDraft(deadlineDrafts, key, value)
             /\ lastOp' = Op("deadlineDraftChange", listId, "applied")
             /\ UNCHANGED <<checklists, route, displayed, nextListId, nextItemId,
                            pendingDelete, openDeadlineKey, archivedSnap>>

\* The editor's close and Cancel buttons and its backdrop: rendered while
\* openDeadlineKey is set.
handleCancelDeadlineEdit ==
    /\ openDeadlineKey # <<>>
    /\ openDeadlineKey' = <<>>
    /\ lastOp' = Op("cancelDeadlineEdit", 0, "applied")
    /\ UNCHANGED <<checklists, route, displayed, nextListId, nextItemId,
                   pendingDelete, deadlineDrafts, archivedSnap>>

\* A format test that only looks for the pattern at the start of the draft
\* (the regular expression without its closing anchor).
DraftAccepted_Unanchored(draft) ==
    \/ draft = ""
    \/ LET cs == Chars(draft) IN
       /\ Len(cs) >= 10
       /\ \A i \in 1..10 : IF i \in {5, 8} THEN cs[i] = "-" ELSE IsDigit(cs[i])

\* !(draft && !/^\d{4}-\d{2}-\d{2}$/.test(draft))
DraftAccepted(draft) == draft = "" \/ DeadlineFormatOk(draft)

handleSaveDeadline(listId, itemId) ==
    LET key == getDeadlineKey(listId, itemId)
        draft == Trim(DraftOf(key))
        value == IF draft = "" THEN Null ELSE draft
        set(item) == [item EXCEPT !.deadline = value]
        save(list) == [list EXCEPT !.items = MapItem(@, itemId, set)]
    IN  IF isArchivedList(listId) THEN Returned("saveDeadline", listId, "archived")
        ELSE IF ~DraftAccepted(draft) THEN Returned("saveDeadline", listId, "alert")
        ELSE /\ Commit(MapList(checklists, listId, save), route)
             /\ openDeadlineKey' = <<>>
             /\ lastOp' = Op("saveDeadline", listId, "applied")
             /\ UNCHANGED <<nextListId, nextItemId, pendingDelete, deadlineDrafts,
                            archivedSnap>>

handleClearDeadline(listId, itemId) ==
    LET key == getDeadlineKey(listId, itemId)
        unset(item) == [item EXCEPT !.deadline = Null]
        clear(list) == [list EXCEPT !.items = MapItem(@, itemId, unset)]
    IN  IF isArchivedList(listId) THEN Returned("clearDeadline", listId, "archived")
        ELSE /\ Commit(MapList(checklists, listId, clear), route)
             /\ openDeadlineKey' = IF openDeadlineKey = key THEN <<>> ELSE openDeadlineKey
             /\ deadlineDrafts' = PutDraft(deadlineDrafts, key, "")
             /\ lastOp' = Op("clearDeadline", listId, "applied")
             /\ UNCHANGED <<nextListId, nextItemId, pendingDelete, archivedSnap>>

(***************************************************************************)
(* Sort mode and drag reorder                                              *)
(***************************************************************************)
handleSortChange(listId, mode) ==
    LET change(list) == [list EXCEPT !.sortMode = mode]
    IN  IF isArchivedList(listId) THEN Returned("sortChange", listId, "archived")
        ELSE /\ Commit(MapList(checklists, listId, change), route)
             /\ lastOp' = Op("sortChange", listId, "applied")
             /\ UNCHANGED <<nextListId, nextItemId, pendingDelete, deadlineDrafts,
                            openDeadlineKey, archivedSnap>>

\* A move that exchanges the two elements.
arrayMove_Swap(array, from, to) ==
    [k \in 1..Len(array) |->
        IF k = from THEN array[to] ELSE IF k = to THEN array[from] ELSE array[k]]

\* arrayMove of @dnd-kit/sortable, indices 1-based: the element at from is
\* spliced out and spliced back in at to
arrayMove(array, from, to) ==
    LET rest == SubSeq(array, 1, from - 1) \o SubSeq(array, from + 1, Len(array))
    IN  SubSeq(rest, 1, to - 1) \o <<array[from]>> \o SubSeq(rest, to, Len(rest))

\* checklists.find((list) => list.id === listId)?.sortMode ?? 'manual'
ListSortMode(listId) ==
    LET idx == FindList(checklists, listId)
    IN  IF idx = 0 THEN "manual" ELSE checklists[idx].sortMode

\* A drag handler without the sort-mode test.
DragAllowed_AnyMode(listId) == TRUE

\* listSortMode === 'manual'
DragAllowed(listId) == ListSortMode(listId) = "manual"

\* overId = 0 stands for event.over = null
handleDragEnd(listId, activeId, overId) ==
    LET move(list) ==
            LET oldIndex == FindItem(list.items, activeId)
                newIndex == FindItem(list.items, overId)
            IN  IF oldIndex = 0 \/ newIndex = 0 THEN list
                ELSE [list EXCEPT !.items = arrayMove(@, oldIndex, newIndex)]
    IN  IF isArchivedList(listId) THEN Returned("dragEnd", listId, "archived")
        ELSE IF ~DragAllowed(listId) THEN Returned("dragEnd", listId, "notManual")
        ELSE IF overId = 0 \/ activeId = overId THEN Returned("dragEnd", listId, "noTarget")
        ELSE /\ Commit(MapList(checklists, listId, move), route)
             /\ lastOp' = Op("dragEnd", listId, "applied")
             /\ UNCHANGED <<nextListId, nextItemId, pendingDelete, deadlineDrafts,
                            openDeadlineKey, archivedSnap>>

(***************************************************************************)
(* The client                                                              *)
(***************************************************************************)
\* the ids of the checklists there are
Lists == ListIdsOf(checklists)

AppNext ==
    \/ \E t \in TitleInputs, p \in PrefillInputs : handleCreateChecklist(t, p)
    \/ \E l \in Lists, d \in ItemDraftInputs : handleAddItem(l, d)
    \/ \E l \in Lists, i \in ItemIds : handleToggleItem(l, i)
    \/ \E l \in Lists, i \in ItemIds : handleDeleteItem(l, i)
    \/ \E l \in Lists : handleClearCompleted(l)
    \/ \E l \in Lists : handleDeleteChecklist(l, checklists[FindList(checklists, l)].title)
    \/ confirmDeleteChecklist
    \/ cancelDeleteChecklist
    \/ \E l \in Lists : handleArchiveChecklist(l)
    \/ \E l \in Lists : handleUnarchiveChecklist(l)
    \/ navigate(IF route = "archive" THEN "home" ELSE "archive")
    \/ \E k \in RowKeys : handleStartDeadlineEdit(k[1], k[2])
    \/ \E v \in DeadlineDraftInputs :
          /\ openDeadlineKey # <<>>
          /\ handleDeadlineDraftChange(openDeadlineKey[1], openDeadlineKey[2], v)
    \/ handleCancelDeadlineEdit
    \/ /\ openDeadlineKey # <<>>
       /\ handleSaveDeadline(openDeadlineKey[1], openDeadlineKey[2])
    \/ \E k \in EditorKeys : handleClearDeadline(k[1], k[2])
    \/ \E l \in Lists, m \in SortModes : handleSortChange(l, m)
    \/ \E l \in Lists, a \in ItemIds, o \in ItemIds \cup {0} : handleDragEnd(l, a, o)

Next ==
    /\ calls < MaxCalls
    /\ calls' = calls + 1
    /\ AppNext
    /\ UNCHANGED sortVars
    /\ UNCHANGED restVars

Spec == Init /\ [][Next]_vars

(***************************************************************************)
(* sortItems on its own: every item array up to MaxSortLen                 *)
(***************************************************************************)
SortDeadlines == {Null, D1, D2, D3}

\* the arrays of n items with ids 1..n
SortInputs ==
    UNION {[1..n -> [id : {0}, text : {"a"}, done : {FALSE}, deadline : SortDeadlines]] :
              n \in 0..MaxSortLen}

WithIds(items) == [i \in 1..Len(items) |-> [items[i] EXCEPT !.id = i]]

SortInit ==
    /\ AppInit
    /\ sortIn \in {WithIds(items) : items \in SortInputs}
    /\ sortOut = <<>>
    /\ RestIdle

\* sortItems(sortIn, mode), its result kept under the mode
ApplySort(mode) ==
    /\ mode \notin DOMAIN sortOut
    /\ sortOut' = [m \in DOMAIN sortOut \cup {mode} |->
                      IF m = mode THEN sortItems(sortIn, mode) ELSE sortOut[m]]
    /\ UNCHANGED sortIn

SortNext ==
    /\ \E mode \in SortModes : ApplySort(mode)
    /\ UNCHANGED appVars
    /\ UNCHANGED restVars

SpecSort == SortInit /\ [][SortNext]_vars

(***************************************************************************)
(* Claims about sortItems (SpecSort)                                       *)
(***************************************************************************)
Dated(items) == SelectSeq(items, HasDeadline)

Undated(items) == SelectSeq(items, LAMBDA it : ~HasDeadline(it))

\* C4: the dated items of the deadline-desc result are the dated items of the
\* deadline-asc result in reverse, equal deadlines included, and the undated
\* items hold the same positions, in the same order, in both results.
C4_DescIsReverseOfAsc ==
    ({"deadline-asc", "deadline-desc"} \subseteq DOMAIN sortOut) =>
        LET asc == sortOut["deadline-asc"]
            desc == sortOut["deadline-desc"]
        IN  /\ Dated(desc) = Reverse(Dated(asc))
            /\ Len(asc) = Len(desc)
            /\ \A i \in 1..Len(asc) :
                  ~HasDeadline(asc[i]) \/ ~HasDeadline(desc[i]) => asc[i] = desc[i]

\* Both results are there for an array with two items of one deadline, a
\* third of another and an undated one in front.
C4_Witness ==
    /\ {"deadline-asc", "deadline-desc"} \subseteq DOMAIN sortOut
    /\ Len(sortIn) >= 3
    /\ ~HasDeadline(sortIn[1])
    /\ \E i, j \in 1..Len(sortIn) :
          i < j /\ HasDeadline(sortIn[i]) /\ sortIn[i].deadline = sortIn[j].deadline
    /\ sortOut["deadline-asc"] # sortOut["deadline-desc"]

\* C5: in both deadline modes the result is a permutation of the input, every
\* dated item precedes every undated one, the undated items keep their input
\* order, and the dated items are in non-decreasing (asc) or non-increasing
\* (desc) deadline order.
C5_SortedPartition ==
    \A mode \in DOMAIN sortOut \cap {"deadline-asc", "deadline-desc"} :
        LET out == sortOut[mode]
            dated == Dated(out)
        IN  /\ Len(out) = Len(sortIn)
            /\ {out[i] : i \in 1..Len(out)} = {sortIn[i] : i \in 1..Len(sortIn)}
            /\ \A i, j \in 1..Len(out) :
                  HasDeadline(out[j]) /\ ~HasDeadline(out[i]) => j < i
            /\ Undated(out) = Undated(sortIn)
            /\ \A i, j \in 1..Len(dated) :
                  i < j =>
                      IF mode = "deadline-asc"
                      THEN localeCompare(dated[i].deadline, dated[j].deadline) <= 0
                      ELSE localeCompare(dated[i].deadline, dated[j].deadline) >= 0

\* A deadline-desc result for an array that starts with an undated item and
\* holds two different deadlines in ascending order.
C5_Witness ==
    /\ "deadline-desc" \in DOMAIN sortOut
    /\ Len(sortIn) = 3
    /\ ~HasDeadline(sortIn[1])
    /\ HasDeadline(sortIn[2]) /\ HasDeadline(sortIn[3])
    /\ localeCompare(sortIn[2].deadline, sortIn[3].deadline) < 0
    /\ sortOut["deadline-desc"] = <<sortIn[3], sortIn[2], sortIn[1]>>

(***************************************************************************)
(* Claims about the client (Spec)                                          *)
(***************************************************************************)
ListById(cl, id) == cl[FindList(cl, id)]

\* the handlers that write items or sortMode
MutatingOps ==
    {"addItem", "toggleItem", "deleteItem", "clearCompleted", "saveDeadline",
     "clearDeadline", "sortChange", "dragEnd"}

\* list l is there before and after the step, with the same items and sortMode
ItemsAndModeKept(l) ==
    /\ l \in ListIdsOf(checklists')
    /\ ListById(checklists', l).items = ListById(checklists, l).items
    /\ ListById(checklists', l).sortMode = ListById(checklists, l).sortMode

\* every checklist but the one at index i is as it was
OthersKept(i) ==
    /\ Len(checklists') = Len(checklists)
    /\ \A j \in 1..Len(checklists) : j # i => checklists'[j] = checklists[j]

\* C1: a mutating handler (add, toggle, delete item, clear completed, save
\* deadline, clear deadline, sort change, drag reorder) called for an archived
\* checklist leaves that checklist's items and sortMode as they were.
C1_ArchivedIsReadOnly ==
    [][\A l \in ListIdsOf(checklists) :
          (/\ IsArchived(ListById(checklists, l))
           /\ lastOp'.op \in MutatingOps
           /\ lastOp'.list = l) => ItemsAndModeKept(l)]_vars

\* Save was pressed in the editor of an item whose checklist had been archived
\* meanwhile, with a well-formed draft that differs from the item's deadline.
C1_Witness ==
    /\ lastOp.op = "saveDeadline"
    /\ lastOp.ret = "archived"
    /\ openDeadlineKey # <<>>
    /\ openDeadlineKey[1] = lastOp.list
    /\ openDeadlineKey \in RowKeys
    /\ DeadlineFormatOk(Trim(DraftOf(openDeadlineKey)))
    /\ CurrentDeadline(openDeadlineKey[1], openDeadlineKey[2]) # Trim(DraftOf(openDeadlineKey))

\* C2: handleDragEnd on a checklist whose sortMode is deadline-asc or
\* deadline-desc leaves the stored items array as it was, whatever the
\* dragged and target ids.
C2_DragUnderDeadlineSortIsNoOp ==
    [][\A l \in ListIdsOf(checklists) :
          (/\ ListById(checklists, l).sortMode # "manual"
           /\ lastOp'.op = "dragEnd"
           /\ lastOp'.list = l) => checklists' = checklists]_vars

\* A drag ended on an active checklist of two items shown in deadline order.
C2_Witness ==
    /\ lastOp.op = "dragEnd"
    /\ lastOp.ret = "notManual"
    /\ lastOp.list \in ListIdsOf(checklists)
    /\ Len(ListById(checklists, lastOp.list).items) = 2
    /\ ~IsArchived(ListById(checklists, lastOp.list))

\* C3: when a checklist is restored its items array is the one it had when it
\* was archived: same order, ids, texts, done flags and deadlines.
C3_RestoreYieldsArchivedItems ==
    [][lastOp'.op = "unarchive" =>
          /\ lastOp'.list \in DOMAIN archivedSnap
          /\ lastOp'.list \in ListIdsOf(checklists')
          /\ ListById(checklists', lastOp'.list).items = archivedSnap[lastOp'.list]]_vars

\* A checklist of two items, one of them done, has just been restored.
C3_Witness ==
    /\ lastOp.op = "unarchive"
    /\ lastOp.list \in ListIdsOf(checklists)
    /\ LET items == ListById(checklists, lastOp.list).items
       IN  Len(items) = 2 /\ \E i \in 1..2 : items[i].done

\* C6: a sort mode is a projection.  What is shown for a manual checklist is
\* the stored array, what is shown in a deadline mode is sortItems of it, and
\* a step that changes a sort mode or only renders (navigation) leaves every
\* stored items array as it was, so that switching back to manual shows the
\* order from before the switch.
C6_SortIsAProjection ==
    /\ [](\A l \in DOMAIN displayed :
             LET list == ListById(checklists, l)
             IN  /\ displayed[l] = sortItems(list.items, list.sortMode)
                 /\ list.sortMode = "manual" => displayed[l] = list.items)
    /\ [][lastOp'.op \in {"sortChange", "navigate"} =>
             /\ Len(checklists') = Len(checklists)
             /\ \A i \in 1..Len(checklists) :
                   checklists'[i].items = checklists[i].items]_vars

\* A checklist has just been switched to a deadline mode in which the order
\* shown differs from the stored order.
C6_Witness ==
    /\ lastOp.op = "sortChange"
    /\ lastOp.ret = "applied"
    /\ lastOp.list \in DOMAIN displayed
    /\ ListById(checklists, lastOp.list).sortMode = "deadline-asc"
    /\ displayed[lastOp.list] # ListById(checklists, lastOp.list).items

\* C7: archive sets archived, a timestamp and pinned = false, restore clears
\* the flag and the timestamp; both keep the checklist's id, title, items and
\* sortMode and every other checklist; archived holds exactly when archivedAt
\* is set.
C7_ArchiveLifecycle ==
    /\ [](\A i \in 1..Len(checklists) :
             checklists[i].archived <=> checklists[i].archivedAt # Null)
    /\ [][lastOp'.op \in {"archive", "unarchive"} =>
             LET i == FindList(checklists, lastOp'.list)
                 old == checklists[i]
                 new == checklists'[i]
             IN  /\ i # 0
                 /\ OthersKept(i)
                 /\ new.id = old.id /\ new.title = old.title
                 /\ new.items = old.items /\ new.sortMode = old.sortMode
                 /\ IF lastOp'.op = "archive"
                    THEN new.archived /\ new.archivedAt # Null /\ ~new.pinned
                    ELSE ~new.archived /\ new.archivedAt = Null]_vars

\* One of two checklists has just been archived; the other one is active and
\* has items.
C7_Witness ==
    /\ lastOp.op = "archive"
    /\ Len(checklists) = 2
    /\ \E i, j \in 1..2 :
          /\ checklists[i].id = lastOp.list
          /\ checklists[i].archived /\ checklists[i].archivedAt # Null
          /\ j # i /\ ~IsArchived(checklists[j]) /\ checklists[j].items # <<>>

\* C8: a checklist leaves the array only in a confirmDeleteChecklist step, and
\* it is the one pendingDelete names; that step removes exactly one checklist
\* and keeps the others in order; requesting and cancelling a deletion leave
\* the array as it was, the request recording the checklist in pendingDelete.
C8_DeleteOnlyOnConfirm ==
    [][/\ \A l \in ListIdsOf(checklists) \ ListIdsOf(checklists') :
             /\ lastOp'.op = "confirmDelete"
             /\ pendingDelete # <<>>
             /\ pendingDelete[1].id = l
       /\ lastOp'.op = "confirmDelete" =>
             /\ Len(checklists') = Len(checklists) - 1
             /\ checklists' = SelectSeq(checklists,
                                        LAMBDA list : list.id # pendingDelete[1].id)
             /\ pendingDelete' = <<>>
       /\ lastOp'.op = "deleteChecklist" =>
             /\ checklists' = checklists
             /\ pendingDelete' # <<>>
             /\ pendingDelete'[1].id = lastOp'.list
       /\ lastOp'.op = "cancelDelete" =>
             /\ checklists' = checklists
             /\ pendingDelete' = <<>>]_vars

\* Two checklists of the same title were created and a deletion has just been
\* confirmed: one of them is left.
C8_Witness ==
    /\ lastOp.op = "confirmDelete"
    /\ nextListId = 3
    /\ Len(checklists) = 1

\* C9: every checklist that leaves the array is archived at that moment.
C9_OnlyArchivedListsAreDeleted ==
    [][\A l \in ListIdsOf(checklists) \ ListIdsOf(checklists') :
          IsArchived(ListById(checklists, l))]_vars

\* what handleSaveDeadline(key) is to do to the deadlines, given the draft
SaveOutcome(key) ==
    LET draft == Trim(DraftOf(key))
    IN  IF draft # "" /\ ~DeadlineFormatOk(draft)
        THEN /\ lastOp'.ret = "alert"
             /\ checklists' = checklists
             /\ openDeadlineKey' = openDeadlineKey
        ELSE /\ Len(checklists') = Len(checklists)
             /\ \A i \in 1..Len(checklists) :
                   /\ Len(checklists'[i].items) = Len(checklists[i].items)
                   /\ \A j \in 1..Len(checklists[i].items) :
                         checklists'[i].items[j] =
                            IF checklists[i].id = key[1] /\ checklists[i].items[j].id = key[2]
                            THEN [checklists[i].items[j] EXCEPT
                                     !.deadline = IF draft = "" THEN Null ELSE draft]
                            ELSE checklists[i].items[j]

\* every stored deadline is null or of the form YYYY-MM-DD
DeadlinesWellFormed ==
    \A i \in 1..Len(checklists) : \A j \in 1..Len(checklists[i].items) :
        LET d == checklists[i].items[j].deadline
        IN  d = Null \/ DeadlineFormatOk(d)

\* C10 as stated: every handleSaveDeadline call alerts and changes nothing
\* when the trimmed draft is malformed, and otherwise sets the named item's
\* deadline to the trimmed draft, or to null when that is empty.
C10_SaveDeadlineAsStated ==
    [][lastOp'.op = "saveDeadline" => SaveOutcome(openDeadlineKey)]_vars

\* C10 as amended: the same for a call on a checklist that is not archived;
\* and every stored deadline is null or of the form YYYY-MM-DD.
C10_SaveDeadlineValidates ==
    /\ []DeadlinesWellFormed
    /\ [][lastOp'.op = "saveDeadline" /\ ~isArchivedList(lastOp'.list) =>
             SaveOutcome(openDeadlineKey)]_vars

\* Save was pressed on a malformed draft for an item of an active checklist:
\* the alert was raised and the editor is still open.
C10_Witness ==
    /\ lastOp.op = "saveDeadline"
    /\ lastOp.ret = "alert"
    /\ openDeadlineKey \in RowKeys
    /\ ~DeadlineFormatOk(Trim(DraftOf(openDeadlineKey)))
    /\ Trim(DraftOf(openDeadlineKey)) # ""

(***************************************************************************)
(* isDueToday on its own (SpecDue).  An instant is a UTC calendar day and   *)
(* a UTC hour; the time zone gives the hours local time is ahead of UTC.    *)
(* The days are numbered around a year's end and CalendarDate writes them   *)
(* as the Date getters and toISOString do.                                  *)
(***************************************************************************)
Days == 0..4

CalendarDate(day) ==
    CASE day = 0 -> "2023-12-30"
      [] day = 1 -> D3
      [] day = 2 -> D1
      [] day = 3 -> D2
      [] day = 4 -> "2024-01-03"

\* the clock: UTC day and hour of new Date()
UtcDays == {1, 2, 3}

UtcHours == {0, 11, 23}

\* hours local time is ahead of UTC (-getTimezoneOffset() / 60)
TimeZones == {-12, -5, 0, 1, 14}

\* the local calendar day of an instant: what getFullYear, getMonth and
\* getDate read
LocalDay(date) == date.utcDay + ((date.utcHour + date.tz + 24) \div 24) - 1

\* toDeadlineString: `${year}-${month}-${day}` from the local getters
toDeadlineString(date) == CalendarDate(LocalDay(date))

\* today.toISOString().split('T')[0]: the calendar day in UTC
todayStr(today) == CalendarDate(today.utcDay)

isDueToday(deadline, today) ==
    IF deadline = Null \/ deadline = "" THEN FALSE
    ELSE deadline = todayStr(today)

DueDeadlines == {Null, "", "2024-1-1"} \cup {CalendarDate(d) : d \in Days}

DueInit ==
    /\ AppInit
    /\ SortIdle
    /\ LoadIdle
    /\ RemoteIdle
    /\ FlightIdle
    /\ dueIn \in [deadline : DueDeadlines, utcDay : UtcDays, utcHour : UtcHours,
                  tz : TimeZones]
    /\ dueOut = <<>>

ApplyIsDueToday ==
    /\ dueOut = <<>>
    /\ dueOut' = <<isDueToday(dueIn.deadline, dueIn)>>
    /\ UNCHANGED dueIn

DueNext ==
    /\ ApplyIsDueToday
    /\ UNCHANGED <<appVars, sortVars, loadVars, remoteVars, flightVars>>

SpecDue == DueInit /\ [][DueNext]_vars

\* C11: isDueToday(deadline) is true exactly when the deadline is the current
\* local calendar date written as YYYY-MM-DD, whatever the clock time and the
\* time zone, and false for a null deadline.
C11_DueTodayIsLocalDate ==
    dueOut # <<>> =>
        (dueOut[1] <=> (dueIn.deadline # Null /\ dueIn.deadline = toDeadlineString(dueIn)))

(***************************************************************************)
(* Loading from localStorage (SpecLoad).  A JSON value is a record tagged   *)
(* with its type; an object is a function on Keys that gives undefined for  *)
(* the properties it does not have, which is what a property read returns.  *)
(* The stored value is absent, the empty string, a text JSON.parse rejects, *)
(* or a text that denotes a JSON value.                                     *)
(***************************************************************************)
Keys ==
    {"id", "title", "items", "sortMode", "pinned", "archived", "archivedAt",
     "text", "done", "deadline", "checklists", "user", "version", "exportedAt"}

JUndefined == [t |-> "undefined"]

JNull == [t |-> "null"]

JNumber == [t |-> "number"]

JString(str) == [t |-> "string", s |-> str]

JBool(b) == [t |-> "boolean", b |-> b]

JArray(a) == [t |-> "array", a |-> a]

JObject(o) == [t |-> "object", o |-> o]

EmptyObject == [k \in Keys |-> JUndefined]

\* v is null or undefined: reading a property of it throws a TypeError, and
\* `v ?? d` gives d
Nullish(v) == v.t \in {"null", "undefined"}

\* v.key for a v that is not nullish
Get(v, key) == IF v.t = "object" THEN v.o[key] ELSE JUndefined

\* v ?? d
Coalesce(v, d) == IF Nullish(v) THEN d ELSE v

\* { ...v }: the own properties of v (none for null and for a number)
Spread(v) == IF v.t = "object" THEN v.o ELSE EmptyObject

\* normalizeChecklistItem throws on item.deadline
ItemThrows(item) == Nullish(item)

normalizeChecklistItem(item) ==
    JObject([Spread(item) EXCEPT !["deadline"] = Coalesce(Get(item, "deadline"), JNull)])

\* normalizeChecklist throws on list.sortMode, or in the map over list.items
ChecklistThrows(list) ==
    \/ Nullish(list)
    \/ /\ Get(list, "items").t = "array"
       /\ \E i \in 1..Len(Get(list, "items").a) : ItemThrows(Get(list, "items").a[i])

normalizeChecklist(list) ==
    JObject([Spread(list) EXCEPT
        !["sortMode"] = Coalesce(Get(list, "sortMode"), JString("manual")),
        !["pinned"] = Coalesce(Get(list, "pinned"), JBool(FALSE)),
        !["archived"] = Coalesce(Get(list, "archived"), JBool(FALSE)),
        !["archivedAt"] = Coalesce(Get(list, "archivedAt"), JNull),
        !["items"] =
            IF Get(list, "items").t = "array"
            THEN JArray([i \in 1..Len(Get(list, "items").a) |->
                            normalizeChecklistItem(Get(list, "items").a[i])])
            ELSE JArray(<<>>)])

\* JSON.parse(raw) throws a SyntaxError
ParseThrows(raw) == raw.kind = "invalid"

\* JSON.parse(raw) for a text that denotes a value
JSONparse(raw) == raw.doc

\* loadChecklists, frontend/src/App.tsx
loadChecklists(raw) ==
    IF raw.kind \in {"absent", "empty"} THEN JArray(<<>>)
    ELSE IF ParseThrows(raw) THEN JArray(<<>>)
    ELSE LET parsed == JSONparse(raw)
         IN  IF parsed.t # "array" THEN JArray(<<>>)
             ELSE IF \E i \in 1..Len(parsed.a) : ChecklistThrows(parsed.a[i])
                  THEN JArray(<<>>)
                  ELSE JArray([i \in 1..Len(parsed.a) |-> normalizeChecklist(parsed.a[i])])

DefaultItem(id, text) ==
    JObject([EmptyObject EXCEPT !["id"] = JString(id), !["text"] = JString(text),
                                !["done"] = JBool(FALSE)])

DefaultList(id, title, items) ==
    JObject([EmptyObject EXCEPT !["id"] = JString(id), !["title"] = JString(title),
                                !["items"] = JArray(items)])

\* defaultLists of the first client, src/App.tsx
defaultLists ==
    JArray(<<DefaultList("am-start", "Morning reset",
                <<DefaultItem("water", "Drink a glass of water"),
                  DefaultItem("plan", "Review today's plan"),
                  DefaultItem("inbox", "Empty inbox/follow-ups")>>),
             DefaultList("ship", "Ship it checklist",
                <<DefaultItem("tests", "Run automated tests"),
                  DefaultItem("notes", "Capture release notes"),
                  DefaultItem("demo", "Record a quick walkthrough")>>)>>)

\* loadInitialData, src/App.tsx
loadInitialData(raw) ==
    IF raw.kind \in {"absent", "empty"} THEN defaultLists
    ELSE IF ParseThrows(raw) THEN defaultLists
    ELSE LET parsed == JSONparse(raw)
         IN  IF parsed.t = "array" THEN parsed ELSE defaultLists

\* the arrays of up to n elements of S
SeqsUpTo(S, n) == UNION {[1..k -> S] : k \in 0..n}

\* stored items: unreadable ones, and objects with and without a deadline
LoadItemDocs ==
    {JNull, JNumber,
     JObject([EmptyObject EXCEPT !["text"] = JString("a")]),
     JObject([EmptyObject EXCEPT !["text"] = JString("a"), !["deadline"] = JNull]),
     JObject([EmptyObject EXCEPT !["text"] = JString("a"), !["deadline"] = JString(D1)])}

LoadItemsFields ==
    {JUndefined, JNull, JString("x")}
        \cup {JArray(a) : a \in SeqsUpTo(LoadItemDocs, MaxLoadItems)}

\* stored checklists: unreadable ones, and objects some of whose fields are
\* missing, null or of the wrong type
LoadListDocs ==
    {JNull, JNumber}
        \cup {JObject([EmptyObject EXCEPT !["items"] = items, !["sortMode"] = mode,
                                          !["archived"] = flag]) :
                 items \in LoadItemsFields,
                 mode \in {JUndefined, JNull, JString("deadline-asc")},
                 flag \in {JUndefined, JBool(TRUE)}}

\* what the texts in storage denote
LoadDocs ==
    {JNull, JNumber, JString("x"), JObject(EmptyObject)}
        \cup {JArray(a) : a \in SeqsUpTo(LoadListDocs, MaxLoadLists)}

StoredValues ==
    {[kind |-> k, doc |-> JNull] : k \in {"absent", "empty", "invalid"}}
        \cup {[kind |-> "json", doc |-> d] : d \in LoadDocs}

LoadInit ==
    /\ AppInit
    /\ SortIdle
    /\ DueIdle
    /\ RemoteIdle
    /\ FlightIdle
    /\ loadIn \in StoredValues
    /\ loadOut = <<>>

\* the result of a loader kept under its name
Loaded(loader, result) ==
    /\ loader \notin DOMAIN loadOut
    /\ loadOut' = [l \in DOMAIN loadOut \cup {loader} |->
                      IF l = loader THEN result ELSE loadOut[l]]
    /\ UNCHANGED loadIn

ApplyLoadChecklists == Loaded("loadChecklists", loadChecklists(loadIn))

ApplyLoadInitialData == Loaded("loadInitialData", loadInitialData(loadIn))

LoadNext ==
    \/ ApplyLoadChecklists /\ UNCHANGED <<appVars, sortVars, dueVars, remoteVars, flightVars>>
    \/ ApplyLoadInitialData /\ UNCHANGED <<appVars, sortVars, dueVars, remoteVars, flightVars>>

SpecLoad == LoadInit /\ [][LoadNext]_vars

(***************************************************************************)
(* Claims about loading (SpecLoad)                                         *)
(***************************************************************************)
\* the stored value is absent, not JSON, not an array, or has an element whose
\* normalization throws
Unusable(raw) ==
    \/ raw.kind # "json"
    \/ raw.doc.t # "array"
    \/ \E i \in 1..Len(raw.doc.a) : ChecklistThrows(raw.doc.a[i])

\* out is the stored element with its defaults filled in
Defaulted(in, out) ==
    /\ out.t = "object"
    /\ out.o["items"].t = "array"
    /\ \A j \in 1..Len(out.o["items"].a) :
          LET item == out.o["items"].a[j]
          IN  /\ item.t = "object"
              /\ item.o["deadline"].t # "undefined"
              /\ Nullish(Get(Get(in, "items").a[j], "deadline")) => item.o["deadline"] = JNull
    /\ ~Nullish(out.o["sortMode"])
    /\ Nullish(Get(in, "sortMode")) => out.o["sortMode"] = JString("manual")
    /\ ~Nullish(out.o["pinned"])
    /\ ~Nullish(out.o["archived"])
    /\ out.o["archivedAt"].t # "undefined"

\* the loadChecklists half of C12
LoadChecklistsTolerant ==
    "loadChecklists" \in DOMAIN loadOut =>
        LET out == loadOut["loadChecklists"]
        IN  IF Unusable(loadIn) THEN out = JArray(<<>>)
            ELSE /\ out.t = "array"
                 /\ Len(out.a) = Len(loadIn.doc.a)
                 /\ \A i \in 1..Len(out.a) : Defaulted(loadIn.doc.a[i], out.a[i])

\* the loadInitialData half of C12
LoadInitialDataTolerant ==
    "loadInitialData" \in DOMAIN loadOut =>
        (Unusable(loadIn) => loadOut["loadInitialData"] = defaultLists)

\* C12: for a stored value that is absent, not valid JSON, not an array or
\* holds an element that cannot be normalized, loadChecklists returns the empty
\* list and loadInitialData the default lists; otherwise every checklist
\* loadChecklists returns has an items array whose items have a deadline
\* field, a sortMode and the pinned, archived and archivedAt defaults.
C12_LoadingNeverFails == LoadChecklistsTolerant /\ LoadInitialDataTolerant

(***************************************************************************)
(* The backend (backend/src/server.ts).  One account can sign up.  The     *)
(* server state is the users map, the clock the token expiry is measured   *)
(* against, and the source of createId().  A request body is a JSON value;  *)
(* a route is an operator from the server state and the request to the     *)
(* status, the response body and the new server state.                      *)
(***************************************************************************)
\* createId(): the n-th id handed out
IdNames ==
    <<"id1", "id2", "id3", "id4", "id5", "id6", "id7", "id8", "id9", "id10",
      "id11", "id12", "id13", "id14", "id15", "id16", "id17", "id18", "id19", "id20",
      "id21", "id22", "id23", "id24", "id25", "id26", "id27", "id28", "id29", "id30">>

createId(n) == IdNames[n]

\* the one set of credentials there is
Email == "user@example.com"

Password == "secret1"

\* z.string().min(1)
NonEmptyString(v) == v.t = "string" /\ v.s # ""

\* z.string().min(1).optional()
OptionalId(v) == v.t = "undefined" \/ NonEmptyString(v)

checklistItemSchema(v) ==
    /\ v.t = "object"
    /\ OptionalId(v.o["id"])
    /\ NonEmptyString(v.o["text"])
    /\ v.o["done"].t \in {"undefined", "boolean"}

\* z.array(checklistItemSchema).optional()
OptionalItems(v) ==
    \/ v.t = "undefined"
    \/ v.t = "array" /\ \A i \in 1..Len(v.a) : checklistItemSchema(v.a[i])

checklistSchema(v) ==
    /\ v.t = "object"
    /\ OptionalId(v.o["id"])
    /\ NonEmptyString(v.o["title"])
    /\ OptionalItems(v.o["items"])

checklistUpdateSchema(v) ==
    /\ v.t = "object"
    /\ v.o["title"].t = "undefined" \/ NonEmptyString(v.o["title"])
    /\ OptionalItems(v.o["items"])

bulkChecklistSchema(v) ==
    v.t = "array" /\ \A i \in 1..Len(v.a) : checklistSchema(v.a[i])

\* how many of the first k elements of the array a have no id
RECURSIVE MissingIds(_, _)
MissingIds(a, k) ==
    IF k = 0 THEN 0
    ELSE MissingIds(a, k - 1) + (IF a[k].o["id"].t = "undefined" THEN 1 ELSE 0)

\* items.map((item) => ({ id: item.id || createId(), text: item.text.trim(),
\* done: Boolean(item.done) })), createId() starting at the n-th id
sanitizeItems(a, n) ==
    [i \in 1..Len(a) |->
        [id |-> IF a[i].o["id"].t = "undefined"
                THEN createId(n + MissingIds(a, i - 1))
                ELSE a[i].o["id"].s,
         text |-> Trim(a[i].o["text"].s),
         done |-> a[i].o["done"].t = "boolean" /\ a[i].o["done"].b]]

\* incoming.items || []
ItemsOrEmpty(v) == IF v.o["items"].t = "array" THEN v.o["items"].a ELSE <<>>

\* the ids sanitizeChecklist(v) draws from createId()
IdsDrawn(v) ==
    (IF v.o["id"].t = "undefined" THEN 1 ELSE 0)
        + MissingIds(ItemsOrEmpty(v), Len(ItemsOrEmpty(v)))

sanitizeChecklist(v, n) ==
    [id |-> IF v.o["id"].t = "undefined" THEN createId(n) ELSE v.o["id"].s,
     title |-> Trim(v.o["title"].s),
     items |-> sanitizeItems(ItemsOrEmpty(v),
                             IF v.o["id"].t = "undefined" THEN n + 1 ELSE n)]

\* the ids drawn by sanitizeChecklist for the first k checklists of a
RECURSIVE IdsDrawnBy(_, _)
IdsDrawnBy(a, k) ==
    IF k = 0 THEN 0 ELSE IdsDrawnBy(a, k - 1) + IdsDrawn(a[k])

\* parsed.map(sanitizeChecklist)
sanitizeAll(a, n) ==
    [i \in 1..Len(a) |-> sanitizeChecklist(a[i], n + IdsDrawnBy(a, i - 1))]

sanitizeChecklistUpdate_Patch(list, v, n) ==
    [id |-> list.id,
     title |-> IF v.o["title"].t = "string" /\ v.o["title"].s # ""
               THEN Trim(v.o["title"].s) ELSE list.title,
     items |-> IF v.o["items"].t = "array"
               THEN list.items \o sanitizeItems(v.o["items"].a, n)
               ELSE list.items]

\* { ...list, ...sanitizeChecklistUpdate(v) }
sanitizeChecklistUpdate(list, v, n) ==
    [id |-> list.id,
     title |-> IF v.o["title"].t = "string" /\ v.o["title"].s # ""
               THEN Trim(v.o["title"].s) ELSE list.title,
     items |-> IF v.o["items"].t = "array"
               THEN sanitizeItems(v.o["items"].a, n)
               ELSE list.items]

\* const users = new Map(): empty when the process starts
ServerInit == [users |-> <<>>, clock |-> 0, nextId |-> 1, stamp |-> 0]

\* what a route answers: the status, the JSON body and the server afterwards
Response(status, body, srv) == [status |-> status, body |-> body, server |-> srv]

Failure(status, error, srv) == Response(status, [error |-> error], srv)

\* jwt.sign(..., { expiresIn: '7d' }): the clock counts periods of seven days
issueToken(srv, user) == [sub |-> user.id, exp |-> srv.clock + 1]

\* A lookup that answers with the first account whatever the token names.
UserIndex_First(srv, sub) == IF srv.users = <<>> THEN 0 ELSE 1

\* users.get(payload.sub): the index of the account, 0 when there is none
UserIndex(srv, sub) ==
    IF \E i \in 1..Len(srv.users) : srv.users[i].id = sub
    THEN CHOOSE i \in 1..Len(srv.users) : srv.users[i].id = sub
    ELSE 0

\* requireAuth lets the request through; auth is <<>> without a header
requireAuth(srv, auth) ==
    /\ auth # <<>>
    /\ srv.clock < auth[1].exp
    /\ UserIndex(srv, auth[1].sub) # 0

Unauthorized(srv) == Failure(401, "Invalid or expired token", srv)

toPublicUser(user) ==
    [id |-> user.id, name |-> user.name, email |-> user.email,
     createdAt |-> user.createdAt, updatedAt |-> user.updatedAt]

\* the title and the item texts of a default list
DefaultTitles == <<"Morning reset", "Ship it checklist">>

DefaultTexts ==
    <<<<"Drink a glass of water", "Review today's plan", "Empty inbox/follow-ups">>,
      <<"Run automated tests", "Capture release notes", "Record a quick walkthrough">>>>

\* cloneDefaultLists(), createId() starting at the n-th id
cloneDefaultLists(n) ==
    [l \in 1..2 |->
        [id |-> createId(n + 4 * (l - 1)),
         title |-> DefaultTitles[l],
         items |-> [i \in 1..3 |->
                       [id |-> createId(n + 4 * (l - 1) + i),
                        text |-> DefaultTexts[l][i],
                        done |-> FALSE]]]]

\* the account with its checklists replaced and updatedAt set to now
Touch(srv, u, lists, drawn) ==
    [srv EXCEPT !.users[u].checklists = lists,
                !.users[u].updatedAt = srv.stamp + 1,
                !.stamp = srv.stamp + 1,
                !.nextId = srv.nextId + drawn]

POST_auth_signup(srv, body) ==
    IF \E i \in 1..Len(srv.users) : srv.users[i].email = body.email
    THEN Failure(409, "Email already registered", srv)
    ELSE LET user == [id |-> createId(srv.nextId), name |-> body.name,
                      email |-> body.email, password |-> body.password,
                      checklists |-> cloneDefaultLists(srv.nextId + 1),
                      createdAt |-> srv.stamp + 1, updatedAt |-> srv.stamp + 1]
         IN  Response(201,
                      [token |-> issueToken(srv, user), user |-> toPublicUser(user),
                       checklists |-> user.checklists],
                      [srv EXCEPT !.users = Append(srv.users, user),
                                  !.stamp = srv.stamp + 1,
                                  !.nextId = srv.nextId + 9])

POST_auth_login(srv, body) ==
    IF ~\E i \in 1..Len(srv.users) : srv.users[i].email = body.email
    THEN Failure(404, "Account not found", srv)
    ELSE LET existing ==
                 srv.users[CHOOSE i \in 1..Len(srv.users) : srv.users[i].email = body.email]
         IN  IF existing.password # body.password
             THEN Failure(401, "Incorrect password", srv)
             ELSE Response(200,
                           [token |-> issueToken(srv, existing),
                            user |-> toPublicUser(existing),
                            checklists |-> existing.checklists],
                           srv)

GET_me(srv, auth) ==
    IF ~requireAuth(srv, auth) THEN Unauthorized(srv)
    ELSE LET user == srv.users[UserIndex(srv, auth[1].sub)]
         IN  Response(200, [user |-> toPublicUser(user), checklists |-> user.checklists], srv)

PUT_me(srv, auth, body) ==
    IF ~requireAuth(srv, auth) THEN Unauthorized(srv)
    ELSE LET u == UserIndex(srv, auth[1].sub)
             after == [srv EXCEPT !.users[u].name = body.name,
                                  !.users[u].email = body.email,
                                  !.users[u].updatedAt = srv.stamp + 1,
                                  !.stamp = srv.stamp + 1]
         IN  IF /\ srv.users[u].email # body.email
                /\ \E i \in 1..Len(srv.users) : srv.users[i].email = body.email
             THEN Failure(409, "Email already in use", srv)
             ELSE Response(200, [user |-> toPublicUser(after.users[u])], after)

POST_checklists(srv, auth, body) ==
    IF ~requireAuth(srv, auth) THEN Unauthorized(srv)
    ELSE IF ~checklistSchema(body) THEN Failure(400, "Validation failed", srv)
    ELSE LET u == UserIndex(srv, auth[1].sub)
             newChecklist == sanitizeChecklist(body, srv.nextId)
         IN  Response(201, [checklist |-> newChecklist],
                      Touch(srv, u, <<newChecklist>> \o srv.users[u].checklists,
                            IdsDrawn(body)))

PUT_checklists(srv, auth, body) ==
    IF ~requireAuth(srv, auth) THEN Unauthorized(srv)
    ELSE IF ~bulkChecklistSchema(body) THEN Failure(400, "Validation failed", srv)
    ELSE LET u == UserIndex(srv, auth[1].sub)
             sanitized == sanitizeAll(body.a, srv.nextId)
         IN  Response(200, [checklists |-> sanitized],
                      Touch(srv, u, sanitized, IdsDrawnBy(body.a, Len(body.a))))

\* user.checklists.findIndex((list) => list.id === id), 0 for -1
findIndex(lists, id) ==
    IF \E i \in 1..Len(lists) : lists[i].id = id
    THEN CHOOSE i \in 1..Len(lists) :
            lists[i].id = id /\ \A j \in 1..(i - 1) : lists[j].id # id
    ELSE 0

PUT_checklists_id(srv, auth, id, body) ==
    IF ~requireAuth(srv, auth) THEN Unauthorized(srv)
    ELSE IF ~checklistUpdateSchema(body) THEN Failure(400, "Validation failed", srv)
    ELSE LET u == UserIndex(srv, auth[1].sub)
             lists == srv.users[u].checklists
             listIndex == findIndex(lists, id)
         IN  IF listIndex = 0 THEN Failure(404, "Checklist not found", srv)
             ELSE LET updated == sanitizeChecklistUpdate(lists[listIndex], body, srv.nextId)
                  IN  Response(200, [checklist |-> updated],
                               Touch(srv, u, [lists EXCEPT ![listIndex] = updated],
                                     MissingIds(ItemsOrEmpty(body), Len(ItemsOrEmpty(body)))))

DELETE_checklists_id_filter_DropsFirst(lists, id) ==
    IF lists = <<>> THEN lists
    ELSE SelectSeq(Tail(lists), LAMBDA list : list.id # id)

\* user.checklists.filter((list) => list.id !== id)
DELETE_checklists_id_filter(lists, id) == SelectSeq(lists, LAMBDA list : list.id # id)

DELETE_checklists_id(srv, auth, id) ==
    IF ~requireAuth(srv, auth) THEN Unauthorized(srv)
    ELSE LET u == UserIndex(srv, auth[1].sub)
             lists == srv.users[u].checklists
             remaining == DELETE_checklists_id_filter(lists, id)
         IN  IF Len(remaining) = Len(lists)
             THEN Failure(404, "Checklist not found",
                          [srv EXCEPT !.users[u].checklists = remaining])
             ELSE Response(204, [error |-> ""], Touch(srv, u, remaining, 0))

(***************************************************************************)
(* The API on its own (SpecApi): one account signs up and then sends       *)
(* requests with its token, with well-formed and malformed bodies and with  *)
(* ids that match a checklist, several checklists or none.                  *)
(***************************************************************************)
\* JSON objects of the request bodies; an absent property is JUndefined
ItemJ(id, text, done) ==
    JObject([EmptyObject EXCEPT !["id"] = id, !["text"] = text, !["done"] = done])

ListJ(id, title, items) ==
    JObject([EmptyObject EXCEPT !["id"] = id, !["title"] = title, !["items"] = items])

\* JSON.stringify of stored items and checklists, as the receiver parses it
ToJsonItems(items) ==
    [i \in 1..Len(items) |->
        ItemJ(JString(items[i].id), JString(items[i].text), JBool(items[i].done))]

ToJsonLists(lists) ==
    [i \in 1..Len(lists) |->
        ListJ(JString(lists[i].id), JString(lists[i].title),
              JArray(ToJsonItems(lists[i].items)))]

Credentials == [name |-> "New teammate", email |-> Email, password |-> Password]

\* the checklists of the one account, <<>> before it has signed up
AccountLists(srv) == IF srv.users = <<>> THEN <<>> ELSE srv.users[1].checklists

AccountIds(srv) == {AccountLists(srv)[i].id : i \in 1..Len(AccountLists(srv))}

\* bodies of POST /checklists
PostBodies ==
    {ListJ(JUndefined, JString(" T "), JUndefined),
     ListJ(JString("x"), JString("T"), JArray(<<ItemJ(JUndefined, JString(" b "), JUndefined)>>)),
     ListJ(JUndefined, JString(""), JUndefined)}

\* bodies of PUT /checklists
BulkBodies ==
    {JArray(<<>>),
     JArray(<<ListJ(JString("x"), JString("T"),
                    JArray(<<ItemJ(JUndefined, JString("a"), JBool(TRUE))>>)),
              ListJ(JString("x"), JString(" T "), JUndefined)>>),
     JObject(EmptyObject)}

\* bodies of PUT /checklists/:id: nothing, a title, items (none, new ones,
\* some of the stored ones), and bodies the schema rejects
UpdateBodies(lists) ==
    {ListJ(JUndefined, JUndefined, JUndefined),
     ListJ(JUndefined, JString(" T "), JUndefined),
     ListJ(JUndefined, JString(""), JUndefined),
     ListJ(JUndefined, JUndefined, JArray(<<>>)),
     ListJ(JUndefined, JUndefined, JArray(<<ItemJ(JUndefined, JString(" b "), JUndefined)>>)),
     ListJ(JUndefined, JUndefined, JArray(<<ItemJ(JUndefined, JString(""), JUndefined)>>)),
     ListJ(JUndefined, JString(" "),
           JArray(<<ItemJ(JString("x"), JString("a"), JBool(TRUE)),
                    ItemJ(JUndefined, JString(" b "), JUndefined)>>))}
        \cup {ListJ(JUndefined, JUndefined, JArray(ToJsonItems(Tail(lists[i].items)))) :
                 i \in {j \in 1..Len(lists) : lists[j].items # <<>>}}

\* ids a request can name: those of the stored checklists and one of none
TargetIds(srv) == AccountIds(srv) \cup {"nope"}

\* there are ids left for a request that draws as many as n
IdsLeft(srv, n) == srv.nextId + n - 1 <= Len(IdNames)

ApiInit ==
    /\ AppInit
    /\ SortIdle
    /\ DueIdle
    /\ LoadIdle
    /\ FlightIdle
    /\ server = ServerInit
    /\ client = [token |-> <<>>]
    /\ lastCall = [route |-> "start", id |-> "", body |-> JNull, status |-> 0,
                   before |-> <<>>, updatedAt |-> 0]
    /\ rcalls = 0

\* the request is answered: the server changes as the route says
Answered(path, id, body, response) ==
    /\ server' = response.server
    /\ lastCall' = [route |-> path, id |-> id, body |-> body,
                    status |-> response.status, before |-> AccountLists(server),
                    updatedAt |-> IF server.users = <<>> THEN 0
                                  ELSE server.users[1].updatedAt]

ApiSignup ==
    LET response == POST_auth_signup(server, Credentials)
    IN  /\ IdsLeft(server, 9)
        /\ Answered("POST /auth/signup", "", JNull, response)
        /\ client' = IF response.status = 201
                     THEN [token |-> <<response.body.token>>]
                     ELSE client

ApiPostChecklist(body) ==
    /\ client.token # <<>>
    /\ IdsLeft(server, 2)
    /\ Answered("POST /checklists", "", body, POST_checklists(server, client.token, body))
    /\ UNCHANGED client

ApiPutChecklists(body) ==
    /\ client.token # <<>>
    /\ IdsLeft(server, 2)
    /\ Answered("PUT /checklists", "", body, PUT_checklists(server, client.token, body))
    /\ UNCHANGED client

ApiPutChecklist(id, body) ==
    /\ client.token # <<>>
    /\ IdsLeft(server, 2)
    /\ Answered("PUT /checklists/:id", id, body,
                PUT_checklists_id(server, client.token, id, body))
    /\ UNCHANGED client

ApiDeleteChecklist(id) ==
    /\ client.token # <<>>
    /\ Answered("DELETE /checklists/:id", id, JNull,
                DELETE_checklists_id(server, client.token, id))
    /\ UNCHANGED client

\* one more request of the bounded run; the other components stay idle
ApiStep ==
    /\ rcalls < MaxApiCalls
    /\ rcalls' = rcalls + 1
    /\ UNCHANGED <<appVars, sortVars, dueVars, loadVars, flightVars>>

ApiNext ==
    \/ ApiStep /\ ApiSignup
    \/ \E body \in PostBodies : ApiStep /\ ApiPostChecklist(body)
    \/ \E body \in BulkBodies : ApiStep /\ ApiPutChecklists(body)
    \/ \E id \in TargetIds(server), body \in UpdateBodies(AccountLists(server)) :
          ApiStep /\ ApiPutChecklist(id, body)
    \/ \E id \in TargetIds(server) : ApiStep /\ ApiDeleteChecklist(id)

SpecApi == ApiInit /\ [][ApiNext]_vars

(***************************************************************************)
(* Claims about the API (SpecApi)                                          *)
(***************************************************************************)
\* every id of a checklist or an item in the array of checklists
AllIds(lists) ==
    {lists[i].id : i \in 1..Len(lists)}
        \cup UNION {{lists[i].items[k].id : k \in 1..Len(lists[i].items)} :
                       i \in 1..Len(lists)}

\* the items new are the items a of a request body: same length and order,
\* text trimmed, done false when omitted, the id given or else a fresh one
ItemsReplacedBy(new, a, before) ==
    /\ Len(new) = Len(a)
    /\ \A k \in 1..Len(a) :
          /\ new[k].text = Trim(a[k].o["text"].s)
          /\ new[k].done = (a[k].o["done"] = JBool(TRUE))
          /\ IF a[k].o["id"].t = "undefined"
             THEN /\ new[k].id \notin AllIds(before)
                  /\ \A m \in 1..Len(a) : m # k => new[m].id # new[k].id
             ELSE new[k].id = a[k].o["id"].s

\* C15: a successful PUT /checklists/:id with an items array (the empty one
\* included) replaces the stored items by exactly the request's items, so
\* that a stored item survives only if the request names it; the checklist's
\* id and position, its title when title is omitted, and the other
\* checklists are unchanged; without items the stored items are unchanged.
C15_PutReplacesItems ==
    [][(lastCall'.route = "PUT /checklists/:id" /\ lastCall'.status = 200) =>
          LET before == AccountLists(server)
              after == AccountLists(server')
              body == lastCall'.body
          IN  /\ Len(after) = Len(before)
              /\ \E i \in 1..Len(before) :
                    /\ before[i].id = lastCall'.id
                    /\ after[i].id = before[i].id
                    /\ \A j \in 1..Len(before) : j # i => after[j] = before[j]
                    /\ body.o["title"].t = "undefined" => after[i].title = before[i].title
                    /\ IF body.o["items"].t = "array"
                       THEN /\ ItemsReplacedBy(after[i].items, body.o["items"].a, before)
                            /\ \A k \in 1..Len(before[i].items) :
                                  (\E m \in 1..Len(after[i].items) :
                                      after[i].items[m].id = before[i].items[k].id)
                                  => \E m \in 1..Len(body.o["items"].a) :
                                        body.o["items"].a[m].o["id"] = JString(before[i].items[k].id)
                       ELSE after[i].items = before[i].items]_vars

\* A PUT with the empty items array has emptied a checklist of three items.
C15_Witness ==
    /\ lastCall.route = "PUT /checklists/:id"
    /\ lastCall.status = 200
    /\ lastCall.body.o["items"] = JArray(<<>>)
    /\ \E i \in 1..Len(lastCall.before) :
          /\ lastCall.before[i].id = lastCall.id
          /\ Len(lastCall.before[i].items) = 3
          /\ AccountLists(server)[i].items = <<>>

\* the request names no checklist of the account
NoSuchChecklist == lastCall'.id \notin AccountIds(server)

\* the account's checklists and updatedAt are as before the request
AccountKept ==
    /\ AccountLists(server') = AccountLists(server)
    /\ server'.users[1].updatedAt = server.users[1].updatedAt

\* DELETE of an id that matches: 204, and what is left are the previous
\* checklists of another id in their order
DeleteRemovesMatches ==
    (lastCall'.route = "DELETE /checklists/:id" /\ ~NoSuchChecklist) =>
        /\ lastCall'.status = 204
        /\ AccountLists(server') =
              SelectSeq(AccountLists(server), LAMBDA list : list.id # lastCall'.id)

\* C16 as stated: PUT and DELETE /checklists/:id with an id that matches no
\* checklist of the account answer 404 and leave its checklists and updatedAt
\* unchanged; DELETE with a matching id answers 204 and leaves the previous
\* checklists of another id in their order.
C16_NotFoundAsStated ==
    [][/\ (lastCall'.route \in {"PUT /checklists/:id", "DELETE /checklists/:id"}
           /\ NoSuchChecklist) => (lastCall'.status = 404 /\ AccountKept)
       /\ DeleteRemovesMatches]_vars

\* C16 as amended: the same, for a PUT whose body passes the schema; a PUT
\* whose body does not is answered 400, whatever the id, and changes nothing.
C16_NotFoundLeavesAccount ==
    [][/\ (lastCall'.route = "DELETE /checklists/:id" /\ NoSuchChecklist)
             => (lastCall'.status = 404 /\ AccountKept)
       /\ (lastCall'.route = "PUT /checklists/:id" /\ NoSuchChecklist)
             => /\ lastCall'.status = IF checklistUpdateSchema(lastCall'.body) THEN 404 ELSE 400
                /\ AccountKept
       /\ DeleteRemovesMatches]_vars

\* A DELETE for an id that names none of the four checklists was answered 404.
C16_Witness ==
    /\ lastCall.route = "DELETE /checklists/:id"
    /\ lastCall.status = 404
    /\ lastCall.id = "nope"
    /\ Len(AccountLists(server)) = 4
    /\ lastCall.before = AccountLists(server)

(***************************************************************************)
(* The remote client (unnamed/part_002) against the backend (SpecRemote).  *)
(* client holds the React state of App under the names of the source; the   *)
(* token in localStorage always equals the token state, which every handler *)
(* writes together with it.  Handlers that call the API take the fate of    *)
(* the fetch as an input: the network delivers the request or fails.  The   *)
(* buttons are modelled with the conditions under which they are rendered   *)
(* (the session is ready and a user is signed in).  The transient           *)
(* profileMessage and the presentation state are left out.                  *)
(***************************************************************************)
\* the text of a textarea that holds a JSON document, or one that holds none
ImportText(kind, doc) == [kind |-> kind, doc |-> doc]

EmptyText == ImportText("empty", JNull)

\* the state of App when the page is loaded with the given stored token
ClientInit(token) ==
    [token |-> token,
     currentUser |-> <<>>,
     sessionReady |-> token = <<>>,
     checklists |-> <<>>,
     newTitle |-> "",
     prefillItems |-> "",
     draftItems |-> <<>>,
     importValue |-> EmptyText,
     importError |-> <<>>,
     actionError |-> <<>>,
     authError |-> <<>>]

\* what callApi gives its caller: whether a request was sent, whether it
\* returned (ok) or threw with a message, the response and the server after
callApi(requiresAuth, net, response) ==
    IF requiresAuth /\ client.token = <<>>
    THEN [sent |-> FALSE, ok |-> FALSE, status |-> 0, server |-> server,
          message |-> "Please sign in to continue.", body |-> <<>>]
    ELSE IF ~net
    THEN [sent |-> TRUE, ok |-> FALSE, status |-> 0, server |-> server,
          message |-> "Failed to fetch", body |-> <<>>]
    ELSE [sent |-> TRUE,
          ok |-> response.status \in 200..299,
          status |-> response.status,
          server |-> response.server,
          message |-> IF response.status \in 200..299 THEN "" ELSE response.body.error,
          body |-> response.body]

\* a handler has run: its name, the checklist it was called for, and what
\* callApi gave it
Called(handler, listId, result) ==
    /\ lastCall' = [handler |-> handler, list |-> listId, sent |-> result.sent,
                    ok |-> result.ok, status |-> result.status]
    /\ server' = result.server

\* a handler has run without calling the API
NoCall == [sent |-> FALSE, ok |-> FALSE, status |-> 0, server |-> server]

\* the page shows the signed-in view
SignedIn == client.sessionReady /\ client.currentUser # <<>>

\* the fetchProfile effect, which runs when the token has changed
fetchProfile(net) ==
    /\ ~client.sessionReady
    /\ LET result == callApi(TRUE, net, GET_me(server, client.token))
       IN  /\ client' = IF result.ok
                        THEN [client EXCEPT !.currentUser = <<result.body.user>>,
                                            !.checklists = result.body.checklists,
                                            !.actionError = <<>>,
                                            !.sessionReady = TRUE]
                        ELSE [client EXCEPT !.currentUser = <<>>,
                                            !.checklists = <<>>,
                                            !.token = <<>>,
                                            !.sessionReady = TRUE]
           /\ Called("fetchProfile", "", result)

\* the page is loaded again: the state starts over with the stored token
reload ==
    /\ client.sessionReady
    /\ client' = ClientInit(client.token)
    /\ Called("reload", "", NoCall)

handleAuthSubmit(authMode, password, net) ==
    /\ client.sessionReady
    /\ client.currentUser = <<>>
    /\ authMode = "signup" => IdsLeft(server, 9)
    /\ LET body == [Credentials EXCEPT !.password = password]
           result == callApi(FALSE, net,
                             IF authMode = "login" THEN POST_auth_login(server, body)
                             ELSE POST_auth_signup(server, body))
       IN  /\ client' = IF result.ok
                        THEN [client EXCEPT !.token = <<result.body.token>>,
                                            !.currentUser = <<result.body.user>>,
                                            !.checklists = result.body.checklists,
                                            !.actionError = <<>>,
                                            !.authError = <<>>,
                                            !.sessionReady = FALSE]
                        ELSE [client EXCEPT !.authError = <<result.message>>]
           /\ Called("handleAuthSubmit", "", result)

handleLogout ==
    /\ SignedIn
    /\ client' = [client EXCEPT !.token = <<>>, !.currentUser = <<>>,
                                !.checklists = <<>>, !.newTitle = "",
                                !.prefillItems = "", !.draftItems = <<>>]
    /\ Called("handleLogout", "", NoCall)

\* what the user types
setNewTitle(value) ==
    /\ SignedIn
    /\ client' = [client EXCEPT !.newTitle = value]
    /\ Called("setNewTitle", "", NoCall)

setPrefillItems(value) ==
    /\ SignedIn
    /\ client' = [client EXCEPT !.prefillItems = value]
    /\ Called("setPrefillItems", "", NoCall)

setDraftItems(listId, value) ==
    /\ SignedIn
    /\ client' = [client EXCEPT !.draftItems = PutDraft(client.draftItems, listId, value)]
    /\ Called("setDraftItems", listId, NoCall)

setImportValue(value) ==
    /\ SignedIn
    /\ client' = [client EXCEPT !.importValue = value]
    /\ Called("setImportValue", "", NoCall)

\* checklists.find((list) => list.id === listId): its index, 0 for none
\* (findIndex above is the same search)
FindTarget(listId) == findIndex(client.checklists, listId)

\* prefillItems.split('\n').map(trim).filter(Boolean).map((text) => ({ text, done: false }))
PrefillPayload(prefill) ==
    LET texts == PrefillTexts(prefill)
    IN  [i \in 1..Len(texts) |-> ItemJ(JUndefined, JString(texts[i]), JBool(FALSE))]

Remote_handleCreateChecklist(net) ==
    /\ SignedIn
    /\ IdsLeft(server, 3)
    /\ LET title == Trim(client.newTitle)
           body == ListJ(JUndefined, JString(title), JArray(PrefillPayload(client.prefillItems)))
           result == callApi(TRUE, net, POST_checklists(server, client.token, body))
       IN  IF title = ""
           THEN /\ UNCHANGED client
                /\ Called("handleCreateChecklist", "", NoCall)
           ELSE /\ client' = IF result.ok
                             THEN [client EXCEPT
                                      !.checklists = <<result.body.checklist>> \o client.checklists,
                                      !.newTitle = "",
                                      !.prefillItems = "",
                                      !.actionError = <<>>]
                             ELSE [client EXCEPT !.actionError = <<result.message>>]
                /\ Called("handleCreateChecklist", "", result)

\* previous.map((list) => (list.id === listId ? data.checklist : list))
ReplaceChecklist(lists, listId, checklist) ==
    [i \in 1..Len(lists) |-> IF lists[i].id = listId THEN checklist ELSE lists[i]]

\* updateChecklistItems: the client state it leaves, given what callApi gave
updateChecklistItems(cl, listId, result) ==
    IF result.ok
    THEN [cl EXCEPT !.checklists = ReplaceChecklist(cl.checklists, listId, result.body.checklist),
                    !.actionError = <<>>]
    ELSE [cl EXCEPT !.actionError = <<result.message>>]

\* the PUT /checklists/:id request of updateChecklistItems
PutItems(listId, items, net) ==
    callApi(TRUE, net,
            PUT_checklists_id(server, client.token, listId,
                              ListJ(JUndefined, JUndefined, JArray(items))))

\* setDraftItems((prev) => ({ ...prev, [listId]: '' })) after the await
ClearDraft(cl, listId) ==
    [cl EXCEPT !.draftItems = PutDraft(cl.draftItems, listId, "")]

Remote_handleAddItem(listId, net) ==
    /\ SignedIn
    /\ IdsLeft(server, 1)
    /\ LET text == IF listId \in DOMAIN client.draftItems
                   THEN Trim(client.draftItems[listId]) ELSE ""
           target == FindTarget(listId)
           nextItems == Append(ToJsonItems(client.checklists[target].items),
                               ItemJ(JUndefined, JString(text), JBool(FALSE)))
           result == PutItems(listId, nextItems, net)
       IN  IF text = "" \/ target = 0
           THEN /\ UNCHANGED client
                /\ Called("handleAddItem", listId, NoCall)
           ELSE /\ client' = ClearDraft(updateChecklistItems(client, listId, result),
                                        listId)
                /\ Called("handleAddItem", listId, result)

\* a handler that sends the items of the target as changed by f
UpdateItemsHandler(handler, listId, nextItems, net) ==
    /\ SignedIn
    /\ LET target == FindTarget(listId)
           result == PutItems(listId, ToJsonItems(nextItems), net)
       IN  IF target = 0
           THEN /\ UNCHANGED client
                /\ Called(handler, listId, NoCall)
           ELSE /\ client' = updateChecklistItems(client, listId, result)
                /\ Called(handler, listId, result)

\* the items of the target, <<>> when there is none
TargetItems(listId) ==
    IF FindTarget(listId) = 0 THEN <<>> ELSE client.checklists[FindTarget(listId)].items

Remote_handleToggleItem(listId, itemId, net) ==
    UpdateItemsHandler("handleToggleItem", listId,
        [i \in 1..Len(TargetItems(listId)) |->
            IF TargetItems(listId)[i].id = itemId
            THEN [TargetItems(listId)[i] EXCEPT !.done = ~TargetItems(listId)[i].done]
            ELSE TargetItems(listId)[i]],
        net)

Remote_handleDeleteItem(listId, itemId, net) ==
    UpdateItemsHandler("handleDeleteItem", listId,
        SelectSeq(TargetItems(listId), LAMBDA item : item.id # itemId), net)

Remote_handleClearCompleted(listId, net) ==
    UpdateItemsHandler("handleClearCompleted", listId,
        SelectSeq(TargetItems(listId), LAMBDA item : ~item.done), net)

Remote_handleDeleteChecklist(listId, net) ==
    /\ SignedIn
    /\ LET result == callApi(TRUE, net, DELETE_checklists_id(server, client.token, listId))
       IN  /\ client' = IF result.ok
                        THEN [client EXCEPT
                                 !.checklists = SelectSeq(client.checklists,
                                                          LAMBDA list : list.id # listId),
                                 !.actionError = <<>>]
                        ELSE [client EXCEPT !.actionError = <<result.message>>]
           /\ Called("handleDeleteChecklist", listId, result)

handleProfileSave(net) ==
    /\ SignedIn
    /\ LET payload == [name |-> client.currentUser[1].name,
                       email |-> client.currentUser[1].email]
           result == callApi(TRUE, net, PUT_me(server, client.token, payload))
       IN  /\ client' = IF result.ok
                        THEN [client EXCEPT !.currentUser = <<result.body.user>>]
                        ELSE client
           /\ Called("handleProfileSave", "", result)

\* syncPayload: JSON.stringify({ version, exportedAt, user, checklists }), as
\* JSON.parse reads it back
syncPayload ==
    ImportText("json",
        JObject([EmptyObject EXCEPT
            !["version"] = JNumber,
            !["exportedAt"] = JString(Timestamp),
            !["user"] = JObject([EmptyObject EXCEPT
                                    !["id"] = JString(client.currentUser[1].id)]),
            !["checklists"] = JArray(ToJsonLists(client.checklists))]))

\* !importValue.trim()
ImportIsBlank(value) == value.kind \in {"empty", "blank"}

\* reading parsed.checklists throws a TypeError
ImportParsedThrows(parsed) == Nullish(parsed)

\* Array.isArray(parsed) ? parsed : parsed.checklists ?? parsed.user?.checklists ?? []
ExtractPayload(parsed) ==
    IF parsed.t = "array" THEN parsed
    ELSE IF ~Nullish(Get(parsed, "checklists")) THEN Get(parsed, "checklists")
    ELSE IF Nullish(Get(parsed, "user")) THEN JArray(<<>>)
    ELSE Coalesce(Get(Get(parsed, "user"), "checklists"), JArray(<<>>))

\* the import stops before the request, with this message
ImportRejected_OnlyBlank(value) ==
    IF ImportIsBlank(value) THEN <<"Paste a backup JSON payload first.">>
    ELSE <<>>

ImportRejected(value) ==
    IF ImportIsBlank(value) THEN <<"Paste a backup JSON payload first.">>
    ELSE IF ParseThrows(value) THEN <<"Unexpected token">>
    ELSE IF ImportParsedThrows(JSONparse(value)) THEN <<"Cannot read properties of null">>
    ELSE IF ExtractPayload(JSONparse(value)).t # "array" THEN <<"Invalid payload">>
    ELSE <<>>

\* the payload of an import that gets as far as the request; what is not an
\* array is sent as it is
ImportPayload(value) ==
    IF value.kind # "json" \/ Nullish(value.doc) THEN JNull
    ELSE ExtractPayload(value.doc)

handleImportData(net) ==
    /\ SignedIn
    /\ IdsLeft(server, 4)
    /\ LET rejected == ImportRejected(client.importValue)
           result == callApi(TRUE, net,
                             PUT_checklists(server, client.token,
                                            ImportPayload(client.importValue)))
       IN  IF rejected # <<>>
           THEN /\ client' = [client EXCEPT !.importError = rejected]
                /\ Called("handleImportData", "", NoCall)
           ELSE /\ client' = IF result.ok
                             THEN [client EXCEPT !.checklists = result.body.checklists,
                                                 !.importValue = EmptyText,
                                                 !.importError = <<>>]
                             ELSE [client EXCEPT !.importError = <<result.message>>]
                /\ Called("handleImportData", "", result)

\* seven days go by: the tokens issued so far have expired
TimePasses ==
    /\ server' = [server EXCEPT !.clock = server.clock + 1]
    /\ lastCall' = [handler |-> "TimePasses", list |-> "", sent |-> FALSE,
                    ok |-> FALSE, status |-> 0]
    /\ UNCHANGED client

\* what the user pastes into the import box
ImportDocs ==
    {JNull,
     JObject(EmptyObject),
     JObject([EmptyObject EXCEPT !["checklists"] = JString("x")]),
     JArray(<<ListJ(JUndefined, JString(" "), JUndefined)>>),
     JArray(<<ListJ(JString("x"), JString("T"),
                    JArray(<<ItemJ(JUndefined, JString("a"), JUndefined)>>)),
              ListJ(JString("x"), JString(" T "), JUndefined)>>)}

ImportTexts ==
    {ImportText("blank", JNull), ImportText("invalid", JNull)}
        \cup {ImportText("json", doc) : doc \in ImportDocs}
        \cup (IF client.currentUser # <<>> THEN {syncPayload} ELSE {})

\* the ids of the checklists and of the items on the page
ShownLists == {client.checklists[i].id : i \in 1..Len(client.checklists)}

\* the item of a checklist the user acts on: the first one
ShownItems(listId) ==
    IF TargetItems(listId) = <<>> THEN {} ELSE {TargetItems(listId)[1].id}

Network == BOOLEAN

RemoteInit ==
    /\ AppInit
    /\ SortIdle
    /\ DueIdle
    /\ LoadIdle
    /\ FlightIdle
    /\ server = ServerInit
    /\ client = ClientInit(<<>>)
    /\ lastCall = [handler |-> "start", list |-> "", sent |-> FALSE, ok |-> FALSE,
                   status |-> 0]
    /\ rcalls = 0

\* one more step of the bounded run; the other components stay idle
RemoteStep ==
    /\ rcalls < MaxRemoteCalls
    /\ rcalls' = rcalls + 1
    /\ UNCHANGED <<appVars, sortVars, dueVars, loadVars, flightVars>>

RemoteNext ==
    \/ \E net \in Network : RemoteStep /\ fetchProfile(net)
    \/ RemoteStep /\ reload
    \/ \E m \in {"login", "signup"}, pw \in {Password, "wrong00"}, net \in Network :
          RemoteStep /\ handleAuthSubmit(m, pw, net)
    \/ RemoteStep /\ handleLogout
    \/ \E v \in TitleInputs : RemoteStep /\ setNewTitle(v)
    \/ \E v \in PrefillInputs : RemoteStep /\ setPrefillItems(v)
    \/ \E l \in ShownLists, v \in ItemDraftInputs : RemoteStep /\ setDraftItems(l, v)
    \/ \E v \in ImportTexts : RemoteStep /\ setImportValue(v)
    \/ \E net \in Network : RemoteStep /\ Remote_handleCreateChecklist(net)
    \/ \E l \in ShownLists, net \in Network : RemoteStep /\ Remote_handleAddItem(l, net)
    \/ \E l \in ShownLists, net \in Network : \E i \in ShownItems(l) :
          RemoteStep /\ Remote_handleToggleItem(l, i, net)
    \/ \E l \in ShownLists, net \in Network : \E i \in ShownItems(l) :
          RemoteStep /\ Remote_handleDeleteItem(l, i, net)
    \/ \E l \in ShownLists, net \in Network :
          RemoteStep /\ Remote_handleClearCompleted(l, net)
    \/ \E l \in ShownLists, net \in Network :
          RemoteStep /\ Remote_handleDeleteChecklist(l, net)
    \/ \E net \in Network : RemoteStep /\ handleProfileSave(net)
    \/ \E net \in Network : RemoteStep /\ handleImportData(net)
    \/ RemoteStep /\ TimePasses

SpecRemote == RemoteInit /\ [][RemoteNext]_vars

(***************************************************************************)
(* Claims about the remote client (SpecRemote)                             *)
(***************************************************************************)
MutationHandlers ==
    {"handleCreateChecklist", "handleAddItem", "handleToggleItem", "handleDeleteItem",
     "handleClearCompleted", "handleDeleteChecklist", "handleImportData"}

\* the client state without its error messages
RestOfState(cl) == [cl EXCEPT !.actionError = <<>>, !.importError = <<>>]

ErrorShown(cl) == cl.actionError # <<>> \/ cl.importError # <<>>

\* C13: when the API call made by a mutation handler fails, an error message
\* is set and the rest of the client's state (the checklists, the per-list
\* drafts and the create form included) is what it was before the handler ran.
C13_FailedCallKeepsState ==
    [][(lastCall'.handler \in MutationHandlers /\ lastCall'.sent /\ ~lastCall'.ok)
          => (ErrorShown(client') /\ RestOfState(client') = RestOfState(client))]_vars

\* the handlers whose successful response refreshes the client's checklists
RefreshingHandlers == MutationHandlers \cup {"handleAuthSubmit"}

\* C14: with one client whose requests are issued one at a time, after every
\* successful response to login, create, item update, delete or import the
\* client's checklists equal the server's checklists of the account: same
\* order, ids, titles and items.
C14_ClientEqualsServer ==
    [][(lastCall'.handler \in RefreshingHandlers /\ lastCall'.ok)
          => client'.checklists = AccountLists(server')]_vars

\* the unauthenticated view: no token, no user, no checklists
SignedOut(cl) == cl.token = <<>> /\ cl.currentUser = <<>> /\ cl.checklists = <<>>

\* C17: every API call answered 401 signs the user out (the token and
\* currentUser cleared, the checklists emptied), for the session-restoring
\* GET /me and for every later mutation call.
C17_AuthErrorSignsOut ==
    [][(lastCall'.sent /\ lastCall'.status = 401) => SignedOut(client')]_vars

\* the import text is empty, or not valid JSON, or its payload is not an array
UnusableImport(value) ==
    \/ ImportIsBlank(value)
    \/ value.kind = "invalid"
    \/ /\ value.kind = "json"
       /\ ~ImportParsedThrows(value.doc)
       /\ ExtractPayload(value.doc).t # "array"

\* C18: handleImportData with text that is empty, not valid JSON, or whose
\* extracted payload is not an array sets an import error, sends no request,
\* and leaves the client's and the server's checklists of the account unchanged.
C18_BadImportChangesNothing ==
    [][(lastCall'.handler = "handleImportData" /\ UnusableImport(client.importValue))
          => /\ client'.importError # <<>>
             /\ ~lastCall'.sent
             /\ client'.checklists = client.checklists
             /\ AccountLists(server') = AccountLists(server)]_vars

\* an import whose payload is not an array has been refused while the account
\* holds checklists
C18_Witness ==
    /\ lastCall.handler = "handleImportData"
    /\ ~lastCall.sent
    /\ client.importValue.kind = "json"
    /\ client.importError = <<"Invalid payload">>
    /\ client.checklists # <<>>
    /\ AccountLists(server) = client.checklists

\* the titles and, per checklist, the item texts and done flags
Contents(lists) ==
    [i \in 1..Len(lists) |->
        [title |-> lists[i].title,
         items |-> [k \in 1..Len(lists[i].items) |->
                      [text |-> lists[i].items[k].text,
                       done |-> lists[i].items[k].done]]]]

\* C19: importing the export of the account's checklists, unchanged, into the
\* same account succeeds whenever the server answers a signed-in request, and
\* leaves checklists with the same titles, item texts and done flags.
C19_ExportImportRoundTrip ==
    [][(/\ lastCall'.handler = "handleImportData"
        /\ client.importValue = syncPayload
        /\ lastCall'.status \notin {0, 401})
          => /\ lastCall'.ok
             /\ Contents(client'.checklists) = Contents(client.checklists)
             /\ Contents(AccountLists(server')) = Contents(client.checklists)]_vars

(***************************************************************************)
(* The displayed totals                                                    *)
(***************************************************************************)
RECURSIVE SumSeq(_)
\* numbers.reduce((sum, n) => sum + n, 0)
SumSeq(ns) == IF ns = <<>> THEN 0 ELSE Head(ns) + SumSeq(Tail(ns))

\* list.items.length and list.items.filter((item) => item.done).length
ItemCount(list) == Len(list.items)

DoneCount(list) == Len(SelectSeq(list.items, LAMBDA item : item.done))

\* totals whose completed count runs over every list, whatever the route
stats_CompletedOverAll(cl, r) ==
    LET source == IF r = "archive" THEN archivedLists(cl) ELSE activeLists(cl)
    IN  [totalItems |-> SumSeq([i \in 1..Len(source) |-> ItemCount(source[i])]),
         completedItems |-> SumSeq([i \in 1..Len(cl) |-> DoneCount(cl[i])]),
         listCount |-> Len(source)]

\* the stats memo of the local client
stats(cl, r) ==
    LET source == IF r = "archive" THEN archivedLists(cl) ELSE activeLists(cl)
    IN  [totalItems |-> SumSeq([i \in 1..Len(source) |-> ItemCount(source[i])]),
         completedItems |-> SumSeq([i \in 1..Len(source) |-> DoneCount(source[i])]),
         listCount |-> Len(source)]

\* the stats and accountStats memos of the remote client
Remote_stats(cl) ==
    [totalItems |-> SumSeq([i \in 1..Len(cl) |-> ItemCount(cl[i])]),
     completedItems |-> SumSeq([i \in 1..Len(cl) |-> DoneCount(cl[i])])]

accountStats(cl) ==
    [totalLists |-> Len(cl),
     completedLists |-> Len(SelectSeq(cl, LAMBDA list : DoneCount(list) = ItemCount(list)))]

\* the rows of the lists that belong to route r, done ones only or all
RowsOn(cl, r, doneOnly) ==
    {<<i, k>> \in (1..Len(cl)) \X (1..MaxItems + 1) :
        /\ IsArchived(cl[i]) = (r = "archive")
        /\ k <= Len(cl[i].items)
        /\ doneOnly => cl[i].items[k].done}

\* C20: in every reachable state each checklist has at most as many done items
\* as items, and the displayed totals satisfy 0 <= completedItems <= totalItems,
\* both counted over the lists of the route: the active lists on the home
\* route, the archived lists on the archive route.
C20_TotalsBounded ==
    /\ \A i \in 1..Len(checklists) : DoneCount(checklists[i]) <= ItemCount(checklists[i])
    /\ 0 <= stats(checklists, route).completedItems
    /\ stats(checklists, route).completedItems <= stats(checklists, route).totalItems
    /\ stats(checklists, route).totalItems = Cardinality(RowsOn(checklists, route, FALSE))
    /\ stats(checklists, route).completedItems = Cardinality(RowsOn(checklists, route, TRUE))

\* the archive route shows 1/1 for an archived list while an active list
\* holds an item that is not done
C20_Witness ==
    /\ route = "archive"
    /\ stats(checklists, route).completedItems = 1
    /\ stats(checklists, route).totalItems = 1
    /\ stats(checklists, "home").totalItems = 1
    /\ stats(checklists, "home").completedItems = 0

\* the totals of the remote client are bounded in the same way
RemoteTotalsBounded ==
    /\ 0 <= Remote_stats(client.checklists).completedItems
    /\ Remote_stats(client.checklists).completedItems
          <= Remote_stats(client.checklists).totalItems
    /\ accountStats(client.checklists).completedLists
          <= accountStats(client.checklists).totalLists

(***************************************************************************)
(* Claims about the handlers of the local client (Spec)                    *)
(***************************************************************************)
\* the checklist a create form with this title and prefill text asks for
CreatedAsAsked(list, title, prefill) ==
    /\ list.title = Trim(title)
    /\ list.sortMode = "manual"
    /\ list.pinned = FALSE
    /\ list.archived = FALSE
    /\ list.archivedAt = Null
    /\ Len(list.items) = Len(PrefillTexts(prefill))
    /\ \A k \in 1..Len(list.items) :
          /\ list.items[k].text = PrefillTexts(prefill)[k]
          /\ list.items[k].done = FALSE
          /\ list.items[k].deadline = Null

\* C21: handleCreateChecklist with a title that is not blank adds exactly one
\* checklist, first in the array, whose items are the non-blank trimmed lines
\* of the prefill text in order (done false, deadline null), with sortMode
\* manual, not pinned, not archived, and leaves the existing checklists as
\* they were; with a blank title it changes nothing.
C21_CreateAddsOneFirst ==
    [][\A t \in TitleInputs, p \in PrefillInputs :
          handleCreateChecklist(t, p) =>
             IF Trim(t) = ""
             THEN checklists' = checklists
             ELSE /\ Len(checklists') = Len(checklists) + 1
                  /\ Tail(checklists') = checklists
                  /\ CreatedAsAsked(Head(checklists'), t, p)]_vars

\* a second checklist has been created from two prefill lines and stands
\* before the first one
C21_Witness ==
    /\ lastOp = Op("create", 2, "applied")
    /\ Len(checklists) = 2
    /\ checklists[1].id = 2
    /\ checklists[2].id = 1
    /\ [k \in 1..Len(checklists[1].items) |-> checklists[1].items[k].text] = <<"a", "b">>

(***************************************************************************)
(* The item handlers on a card that already holds items (SpecItems)        *)
(***************************************************************************)
\* the card and a second checklist, with ids that makeId() does not give again
CardId == 11

OtherId == 12

CardItemIds == {10 + k : k \in 1..MaxCardItems}

OtherItemId == 21

MissingItemId == 99

\* the items a card can hold: any done flags, a deadline on the first or none
CardItems ==
    UNION {[1..n -> [id : {0}, text : {"a"}, done : BOOLEAN, deadline : {Null, D1}]] :
              n \in 0..MaxCardItems}

CardItemsWithIds(items) ==
    [k \in 1..Len(items) |->
        [items[k] EXCEPT !.id = 10 + k,
                         !.deadline = IF k = 1 THEN items[k].deadline ELSE Null]]

\* the card is active in any sort mode, or archived, in manual mode
Cards ==
    {[id |-> CardId, title |-> "T", items |-> CardItemsWithIds(items),
      sortMode |-> c[1], pinned |-> FALSE, archived |-> c[2],
      archivedAt |-> IF c[2] THEN Timestamp ELSE Null] :
        items \in CardItems,
        c \in {<<"manual", FALSE>>, <<"deadline-asc", FALSE>>, <<"manual", TRUE>>}}

OtherList ==
    [id |-> OtherId, title |-> "T",
     items |-> <<[id |-> OtherItemId, text |-> "b", done |-> TRUE, deadline |-> Null]>>,
     sortMode |-> "manual", pinned |-> FALSE, archived |-> FALSE, archivedAt |-> Null]

\* the deadline editor: closed, or open on the first row of the card with a
\* draft that is a date or is not
CardEditors ==
    {[drafts |-> <<>>, open |-> <<>>]}
        \cup {[drafts |-> [k \in {getDeadlineKey(CardId, 11)} |-> d],
                open |-> getDeadlineKey(CardId, 11)] : d \in {" 2024-01-02 ", "2024-01-01x"}}

ItemsInit ==
    /\ checklists \in {<<card, OtherList>> : card \in Cards}
    /\ route = "home"
    /\ pendingDelete = <<>>
    /\ \E e \in CardEditors : deadlineDrafts = e.drafts /\ openDeadlineKey = e.open
    /\ displayed = View(checklists, route)
    /\ nextListId = 1
    /\ nextItemId = 1
    /\ lastOp = Op("init", 0, "applied")
    /\ calls = 0
    /\ archivedSnap = <<>>
    /\ SortIdle
    /\ RestIdle

\* one more handler call; the other components stay idle
ItemsStep ==
    /\ calls < MaxItemCalls
    /\ calls' = calls + 1
    /\ UNCHANGED <<sortVars, restVars>>

\* the list ids and item ids the handlers are called with
CardLists == {CardId, OtherId}

CardArgs == CardItemIds \cup {OtherItemId, MissingItemId}

ItemsNext ==
    \/ \E l \in CardLists, d \in ItemDraftInputs : ItemsStep /\ handleAddItem(l, d)
    \/ \E l \in CardLists, i \in CardArgs : ItemsStep /\ handleToggleItem(l, i)
    \/ \E l \in CardLists, i \in CardArgs : ItemsStep /\ handleDeleteItem(l, i)
    \/ \E l \in CardLists : ItemsStep /\ handleClearCompleted(l)
    \/ /\ openDeadlineKey # <<>>
       /\ ItemsStep
       /\ handleSaveDeadline(openDeadlineKey[1], openDeadlineKey[2])
    \/ \E l \in CardLists, i \in CardArgs : ItemsStep /\ handleClearDeadline(l, i)
    \/ \E l \in CardLists, m \in SortModes : ItemsStep /\ handleSortChange(l, m)
    \/ \E l \in CardLists, a \in CardArgs, o \in CardArgs \cup {0} :
          ItemsStep /\ handleDragEnd(l, a, o)

SpecItems == ItemsInit /\ [][ItemsNext]_vars

(***************************************************************************)
(* Claims about the item handlers (SpecItems)                              *)
(***************************************************************************)
\* the items of the checklist with this id, <<>> when there is none
ItemsOf(cl, listId) ==
    IF FindList(cl, listId) = 0 THEN <<>> ELSE cl[FindList(cl, listId)].items

ItemsBut(items, itemId) == SelectSeq(items, LAMBDA item : item.id # itemId)

\* C29: in manual mode on an active checklist, handleDragEnd with active and
\* over ids that are both in the list and different moves the active item to
\* the index the over item had, keeps the order of the other items and adds,
\* drops and duplicates none; when over is missing, the ids are equal or one
\* of them is not in the list, the items are unchanged.
C29_DragMovesOneItem ==
    [][\A l \in CardLists, a \in CardArgs, o \in CardArgs \cup {0} :
          (/\ lastOp'.op = "dragEnd"
           /\ lastOp'.list = l
           /\ ~isArchivedList(l)
           /\ ListSortMode(l) = "manual"
           /\ handleDragEnd(l, a, o)) =>
             LET before == ItemsOf(checklists, l)
                 after == ItemsOf(checklists', l)
             IN  IF o # 0 /\ a # o /\ a \in ItemIdsOf(before) /\ o \in ItemIdsOf(before)
                 THEN /\ Len(after) = Len(before)
                      /\ after[FindItem(before, o)] = before[FindItem(before, a)]
                      /\ ItemsBut(after, a) = ItemsBut(before, a)
                 ELSE after = before]_vars

\* the first of three items has been dragged onto the last
C29_Witness ==
    /\ lastOp = Op("dragEnd", CardId, "applied")
    /\ calls = 1
    /\ [k \in 1..Len(ItemsOf(checklists, CardId)) |-> ItemsOf(checklists, CardId)[k].id]
          = <<12, 13, 11>>

\* the item-level handlers, as lastOp names them
ItemOps ==
    {"addItem", "toggleItem", "deleteItem", "clearCompleted", "saveDeadline",
     "clearDeadline", "sortChange", "dragEnd"}

\* the step is a call of an item-level handler for this list
ItemHandlerCall(l) == lastOp'.op \in ItemOps /\ lastOp'.list = l

\* the step is a call of the handler named op for list l and item i
ItemCall(op, l, i) ==
    /\ lastOp'.op = op
    /\ lastOp'.list = l
    /\ \/ op = "toggleItem" /\ handleToggleItem(l, i)
       \/ op = "deleteItem" /\ handleDeleteItem(l, i)
       \/ op = "saveDeadline" /\ handleSaveDeadline(l, i)
       \/ op = "clearDeadline" /\ handleClearDeadline(l, i)
       \/ op = "dragEnd" /\ \E o \in CardArgs \cup {0} : handleDragEnd(l, i, o)

\* a call of a handler that names an item, with an id that is not in the list
CallForAbsentItem(l) ==
    \E i \in CardArgs \ ItemIdsOf(ItemsOf(checklists, l)) :
        \E op \in {"toggleItem", "deleteItem", "saveDeadline", "clearDeadline", "dragEnd"} :
            ItemCall(op, l, i)

\* the checklists other than l are what they were, at their places
OtherListsSame(l) ==
    /\ Len(checklists') = Len(checklists)
    /\ \A j \in 1..Len(checklists) :
          /\ checklists'[j].id = checklists[j].id
          /\ checklists[j].id # l => checklists'[j] = checklists[j]

\* cl with the done flag of item i of list l negated and nothing else changed
Flipped(cl, l, i) ==
    [j \in 1..Len(cl) |->
        IF cl[j].id # l THEN cl[j]
        ELSE [cl[j] EXCEPT !.items =
                 [k \in 1..Len(cl[j].items) |->
                     IF cl[j].items[k].id = i
                     THEN [cl[j].items[k] EXCEPT !.done = ~cl[j].items[k].done]
                     ELSE cl[j].items[k]]]]

\* C30: an item-level handler called for list l changes only the checklist
\* with id l; toggle changes only the done flag of the named item, and a second
\* toggle of that item restores the state; clear completed removes exactly the
\* done items and keeps the order of the rest; an item id that is not in the
\* list changes nothing.
C30_ItemHandlersFrame ==
    [][\A l \in CardLists :
          /\ ItemHandlerCall(l) => OtherListsSame(l)
          /\ \A i \in CardArgs :
                ItemCall("toggleItem", l, i) =>
                   IF isArchivedList(l) THEN checklists' = checklists
                   ELSE /\ checklists' = Flipped(checklists, l, i)
                        /\ Flipped(checklists', l, i) = checklists
          /\ (/\ lastOp'.op = "clearCompleted"
              /\ lastOp'.list = l
              /\ handleClearCompleted(l)
              /\ ~isArchivedList(l)) =>
                /\ ItemsOf(checklists', l)
                      = SelectSeq(ItemsOf(checklists, l), LAMBDA item : ~item.done)
                /\ [ListById(checklists', l) EXCEPT !.items = <<>>]
                      = [ListById(checklists, l) EXCEPT !.items = <<>>]
          /\ CallForAbsentItem(l) => checklists' = checklists]_vars

\* the second of three items of the card has been toggled, next to the other
\* checklist
C30_Witness ==
    /\ lastOp = Op("toggleItem", CardId, "applied")
    /\ calls = 1
    /\ [k \in 1..Len(ItemsOf(checklists, CardId)) |-> ItemsOf(checklists, CardId)[k].done]
          = <<FALSE, TRUE, FALSE>>
    /\ checklists[2] = OtherList

(***************************************************************************)
(* Two accounts on one server (SpecTenants)                                *)
(***************************************************************************)
OtherEmail == "other@example.com"

TenantEmails == {Email, OtherEmail}

TenantCredentials(email) == [name |-> "New teammate", email |-> email, password |-> Password]

\* the Authorization header of a request: none, or a token a client was given
TenantAuths == {<<>>} \cup {<<token>> : token \in client.tokens}

\* ids a request can name: the first checklist of every account and one of none
TenantTargets ==
    {server.users[u].checklists[1].id :
        u \in {v \in 1..Len(server.users) : server.users[v].checklists # <<>>}}
        \cup {"nope"}

TenantPostBody ==
    ListJ(JString("x"), JString("T"), JArray(<<ItemJ(JUndefined, JString(" b "), JUndefined)>>))

TenantBulkBodies ==
    {JArray(<<>>),
     JArray(<<ListJ(JUndefined, JString("T"),
                    JArray(<<ItemJ(JUndefined, JString("a"), JBool(TRUE))>>))>>)}

TenantUpdateBody ==
    ListJ(JUndefined, JString(" T "),
          JArray(<<ItemJ(JUndefined, JString(" b "), JUndefined)>>))

TenantsInit ==
    /\ AppInit
    /\ SortIdle
    /\ DueIdle
    /\ LoadIdle
    /\ FlightIdle
    /\ server = ServerInit
    /\ client = [tokens |-> {}]
    /\ lastCall = [route |-> "start", auth |-> <<>>, status |-> 0]
    /\ rcalls = 0

\* the request is answered: the server changes as the route says
TenantAnswered(path, auth, response) ==
    /\ server' = response.server
    /\ lastCall' = [route |-> path, auth |-> auth, status |-> response.status]

\* an answer that carries a token hands it to the client
TenantToken(response) ==
    client' = IF response.status \in 200..299
              THEN [tokens |-> client.tokens \cup {response.body.token}]
              ELSE client

TenantSignup(email) ==
    LET response == POST_auth_signup(server, TenantCredentials(email))
    IN  /\ IdsLeft(server, 9)
        /\ TenantAnswered("POST /auth/signup", <<>>, response)
        /\ TenantToken(response)

TenantLogin(email) ==
    LET response == POST_auth_login(server, TenantCredentials(email))
    IN  /\ TenantAnswered("POST /auth/login", <<>>, response)
        /\ TenantToken(response)

TenantGetMe(auth) ==
    /\ TenantAnswered("GET /me", auth, GET_me(server, auth))
    /\ UNCHANGED client

TenantPostChecklist(auth) ==
    /\ IdsLeft(server, 2)
    /\ TenantAnswered("POST /checklists", auth, POST_checklists(server, auth, TenantPostBody))
    /\ UNCHANGED client

TenantPutChecklists(auth, body) ==
    /\ IdsLeft(server, 2)
    /\ TenantAnswered("PUT /checklists", auth, PUT_checklists(server, auth, body))
    /\ UNCHANGED client

TenantPutChecklist(auth, id) ==
    /\ IdsLeft(server, 2)
    /\ TenantAnswered("PUT /checklists/:id", auth,
                      PUT_checklists_id(server, auth, id, TenantUpdateBody))
    /\ UNCHANGED client

TenantDeleteChecklist(auth, id) ==
    /\ TenantAnswered("DELETE /checklists/:id", auth, DELETE_checklists_id(server, auth, id))
    /\ UNCHANGED client

\* seven days go by: the tokens issued so far have expired
TenantTimePasses ==
    /\ server' = [server EXCEPT !.clock = server.clock + 1]
    /\ lastCall' = [route |-> "time", auth |-> <<>>, status |-> 0]
    /\ UNCHANGED client

\* one more request of the bounded run; the other components stay idle
TenantStep ==
    /\ rcalls < MaxTenantCalls
    /\ rcalls' = rcalls + 1
    /\ UNCHANGED <<appVars, sortVars, dueVars, loadVars, flightVars>>

TenantsNext ==
    \/ \E email \in TenantEmails : TenantStep /\ TenantSignup(email)
    \/ \E email \in TenantEmails : TenantStep /\ TenantLogin(email)
    \/ \E auth \in TenantAuths : TenantStep /\ TenantGetMe(auth)
    \/ \E auth \in TenantAuths : TenantStep /\ TenantPostChecklist(auth)
    \/ \E auth \in TenantAuths, body \in TenantBulkBodies :
          TenantStep /\ TenantPutChecklists(auth, body)
    \/ \E auth \in TenantAuths, id \in TenantTargets :
          TenantStep /\ TenantPutChecklist(auth, id)
    \/ \E auth \in TenantAuths, id \in TenantTargets :
          TenantStep /\ TenantDeleteChecklist(auth, id)
    \/ TenantStep /\ TenantTimePasses

SpecTenants == TenantsInit /\ [][TenantsNext]_vars

(***************************************************************************)
(* Claims about the accounts (SpecTenants)                                 *)
(***************************************************************************)
ProtectedRoutes ==
    {"GET /me", "POST /checklists", "PUT /checklists", "PUT /checklists/:id",
     "DELETE /checklists/:id"}

\* the header carries a token that has not expired and names an account
TokenValid(srv, auth) ==
    /\ auth # <<>>
    /\ srv.clock < auth[1].exp
    /\ \E u \in 1..Len(srv.users) : srv.users[u].id = auth[1].sub

\* the ids of the checklists and items of the accounts other than u
IdsOfOthers(srv, u) ==
    UNION {AllIds(srv.users[v].checklists) : v \in (1..Len(srv.users)) \ {u}}

\* the account holds a copy of the starter lists of its own
OwnStarterLists(srv, u) ==
    LET lists == srv.users[u].checklists IN
    /\ Len(lists) = Len(DefaultTitles)
    /\ \A l \in 1..Len(lists) :
          /\ lists[l].title = DefaultTitles[l]
          /\ Len(lists[l].items) = Len(DefaultTexts[l])
          /\ \A k \in 1..Len(lists[l].items) :
                /\ lists[l].items[k].text = DefaultTexts[l][k]
                /\ lists[l].items[k].done = FALSE
    /\ Cardinality(AllIds(lists)) = 8
    /\ AllIds(lists) \cap IdsOfOthers(srv, u) = {}

\* C22: no request authenticated with the token of one account changes the
\* checklists of another; a request to a protected route without a valid
\* token is answered 401 and changes no account; every signup gives the
\* account its own copy of the starter lists, all items not done.
C22_AccountsIsolated ==
    [][/\ (lastCall'.route \in ProtectedRoutes /\ TokenValid(server, lastCall'.auth)) =>
             /\ Len(server'.users) = Len(server.users)
             /\ \A u \in 1..Len(server.users) :
                   server.users[u].id # lastCall'.auth[1].sub
                      => server'.users[u] = server.users[u]
       /\ (lastCall'.route \in ProtectedRoutes /\ ~TokenValid(server, lastCall'.auth)) =>
             /\ lastCall'.status = 401
             /\ server'.users = server.users
       /\ (lastCall'.route = "POST /auth/signup" /\ lastCall'.status = 201) =>
             /\ Len(server'.users) = Len(server.users) + 1
             /\ SubSeq(server'.users, 1, Len(server.users)) = server.users
             /\ OwnStarterLists(server', Len(server'.users))]_vars

\* the second of two accounts has added a checklist to its own lists
C22_Witness ==
    /\ lastCall.route = "POST /checklists"
    /\ lastCall.status = 201
    /\ Len(server.users) = 2
    /\ lastCall.auth[1].sub = server.users[2].id
    /\ Len(server.users[2].checklists) = 3
    /\ Len(server.users[1].checklists) = 2

(***************************************************************************)
(* Claims about the stored checklists (SpecApi)                            *)
(***************************************************************************)
\* no two elements of the sequence have the same id
DistinctIds(seq) == \A i, j \in 1..Len(seq) : seq[i].id = seq[j].id => i = j

\* C26: after any sequence of accepted POST /checklists, PUT /checklists,
\* PUT /checklists/:id and DELETE /checklists/:id requests the checklist ids
\* of the account are pairwise distinct, and so are the item ids within each
\* checklist.
C26_IdsDistinct ==
    /\ DistinctIds(AccountLists(server))
    /\ \A i \in 1..Len(AccountLists(server)) : DistinctIds(AccountLists(server)[i].items)

\* C27: every stored checklist has a title that is not empty and every stored
\* item a text that is not empty; a request whose title or item text would be
\* stored as the empty string is answered 400 and changes nothing.
C27_NoEmptyTitleOrText ==
    \A i \in 1..Len(AccountLists(server)) :
        /\ AccountLists(server)[i].title # ""
        /\ \A k \in 1..Len(AccountLists(server)[i].items) :
              AccountLists(server)[i].items[k].text # ""

(***************************************************************************)
(* Claims about the import of the remote client (SpecRemote)               *)
(***************************************************************************)
\* the document is an array of checklists or carries one as checklists or as
\* user.checklists
CarriesChecklistArray(doc) ==
    \/ doc.t = "array"
    \/ Get(doc, "checklists").t = "array"
    \/ Get(Get(doc, "user"), "checklists").t = "array"

\* C28: handleImportData with valid JSON that holds no checklist array does
\* not change the account's checklists on the server or in the client.
C28_ImportWithoutArrayKeepsLists ==
    [][(/\ lastCall'.handler = "handleImportData"
        /\ client.importValue.kind = "json"
        /\ ~CarriesChecklistArray(client.importValue.doc))
          => /\ client'.checklists = client.checklists
             /\ AccountLists(server') = AccountLists(server)]_vars

(***************************************************************************)
(* The account maps under concurrent requests: SpecAccounts                *)
(* (server.ts 70-71, 195-221, 246-263).  server holds users (the accounts  *)
(* in insertion order) and usersByEmail (normalized email -> the id of the *)
(* account the map holds under it); inflight holds the signups suspended   *)
(* at await bcrypt.hash.  Names, password hashes, timestamps and           *)
(* checklists play no part in the two maps and are left out.               *)
(***************************************************************************)
MaxAccountCalls == 4

\* the emails that requests carry
RequestEmails == {"user@example.com", "User@Example.com", "other@example.com"}

\* body.email.toLowerCase()
toLowerCase(email) == IF email = "User@Example.com" THEN "user@example.com" ELSE email

\* new Map()
EmptyMap == [k \in {} |-> ""]

\* map.has(key)
MapHas(map, key) == key \in DOMAIN map

\* map.set(key, value)
MapSet(map, key, value) ==
    [k \in DOMAIN map \cup {key} |-> IF k = key THEN value ELSE map[k]]

\* map.delete(key)
MapDelete(map, key) == [k \in DOMAIN map \ {key} |-> map[k]]

AccountsInit ==
    /\ server = [users |-> <<>>, usersByEmail |-> EmptyMap, nextId |-> 1]
    /\ client = <<>>
    /\ lastCall = [route |-> "", status |-> 0]
    /\ rcalls = 0
    /\ inflight = <<>>
    /\ checklists = <<>> /\ route = "home" /\ pendingDelete = <<>>
    /\ deadlineDrafts = <<>> /\ openDeadlineKey = <<>> /\ displayed = <<>>
    /\ nextListId = 1 /\ nextItemId = 1 /\ lastOp = <<>> /\ calls = 0
    /\ archivedSnap = <<>>
    /\ SortIdle
    /\ DueIdle
    /\ LoadIdle

\* POST /auth/signup up to the await: the duplicate check answers 409, or the
\* handler suspends while the password is hashed
SignupCheck(email) ==
    LET normalizedEmail == toLowerCase(email)
    IN  /\ rcalls < MaxAccountCalls
        /\ rcalls' = rcalls + 1
        /\ UNCHANGED server
        /\ IF MapHas(server.usersByEmail, normalizedEmail)
           THEN /\ lastCall' = [route |-> "POST /auth/signup", status |-> 409]
                /\ UNCHANGED inflight
           ELSE /\ lastCall' = [route |-> "POST /auth/signup", status |-> 0]
                /\ inflight' = Append(inflight, [email |-> normalizedEmail])

\* POST /auth/signup after the await: the k-th suspended signup resumes and
\* inserts its account into both maps
SignupInsert(k) ==
    LET user == [id |-> createId(server.nextId), email |-> inflight[k].email]
    IN  /\ server' = [users |-> Append(server.users, user),
                      usersByEmail |-> MapSet(server.usersByEmail, user.email, user.id),
                      nextId |-> server.nextId + 1]
        /\ inflight' = SubSeq(inflight, 1, k - 1) \o SubSeq(inflight, k + 1, Len(inflight))
        /\ lastCall' = [route |-> "POST /auth/signup", status |-> 201]
        /\ UNCHANGED rcalls

\* PUT /me with the token of the u-th account: one synchronous handler
AccountPutMe(u, email) ==
    LET normalizedEmail == toLowerCase(email)
        user == server.users[u]
    IN  /\ rcalls < MaxAccountCalls
        /\ rcalls' = rcalls + 1
        /\ UNCHANGED inflight
        /\ IF user.email # normalizedEmail /\ MapHas(server.usersByEmail, normalizedEmail)
           THEN /\ lastCall' = [route |-> "PUT /me", status |-> 409]
                /\ UNCHANGED server
           ELSE /\ lastCall' = [route |-> "PUT /me", status |-> 200]
                /\ server' =
                       [server EXCEPT
                           !.users[u].email = normalizedEmail,
                           !.usersByEmail =
                               MapSet(MapDelete(server.usersByEmail, user.email),
                                      normalizedEmail, user.id)]

AccountsStep == UNCHANGED <<appVars, sortVars, dueVars, loadVars, client>>

AccountsNext ==
    \/ AccountsStep /\ \E email \in RequestEmails : SignupCheck(email)
    \/ AccountsStep /\ \E k \in 1..Len(inflight) : SignupInsert(k)
    \/ AccountsStep /\ \E u \in 1..Len(server.users), email \in RequestEmails :
                          AccountPutMe(u, email)

SpecAccounts == AccountsInit /\ [][AccountsNext]_vars

\* C24: under any interleaving of signups and profile updates no two accounts
\* have the same normalized email, and usersByEmail maps the current email of
\* every account to that account and has no other keys.
C24_EmailsUnique ==
    /\ \A i, j \in 1..Len(server.users) :
          i # j => server.users[i].email # server.users[j].email
    /\ \A i \in 1..Len(server.users) :
          /\ MapHas(server.usersByEmail, server.users[i].email)
          /\ server.usersByEmail[server.users[i].email] = server.users[i].id
    /\ DOMAIN server.usersByEmail =
          {server.users[i].email : i \in 1..Len(server.users)}

(***************************************************************************)
(* The remote client with its requests in flight: SpecFlight               *)
(* (unnamed/part_002 86-366, server.ts 195-310).  A handler that awaits    *)
(* callApi runs in three steps: it is called and sends its request, built  *)
(* from the state of the render it was called in; the server answers the   *)
(* request; the continuation after the await runs on the response.  Other  *)
(* handlers run in between, and requests are answered and responses        *)
(* handled in any order.  The network delivers every request.  Typing a    *)
(* title or a draft is taken together with the submit that follows it.     *)
(***************************************************************************)
MaxFlightCalls == 3

MaxInFlight == 2

\* what a request changes in the items of its checklist, kept for the claims
Mutation(kind, listId, itemId, was, text) ==
    [kind |-> kind, list |-> listId, item |-> itemId, was |-> was, text |-> text]

NoMutation == Mutation("", "", "", FALSE, "")

\* currentUser?.id of the render a handler was called in
FlightUser == IF client.currentUser = <<>> THEN "" ELSE client.currentUser[1].id

\* a request on its way: the handler awaiting it, what callApi sent, the
\* cancelled flag of the effect run that sent it, and the response
Request(handler, path, id, body, mutation) ==
    [handler |-> handler, route |-> path, id |-> id, token |-> client.token,
     body |-> body, issuedBy |-> FlightUser, cancelled |-> FALSE,
     answer |-> <<>>, mutation |-> mutation]

\* the cleanup of the fetchProfile effect, run when the token changes
CancelProfile(reqs) ==
    [k \in 1..Len(reqs) |->
        IF reqs[k].handler = "fetchProfile" THEN [reqs[k] EXCEPT !.cancelled = TRUE]
        ELSE reqs[k]]

\* the requests without the k-th
Settled(reqs, k) == SubSeq(reqs, 1, k - 1) \o SubSeq(reqs, k + 1, Len(reqs))

\* an item mutation is on its way or waits for its continuation
MutationInFlight(reqs) == \E k \in 1..Len(reqs) : reqs[k].mutation.kind # ""

FlightInit ==
    /\ server = ServerInit
    /\ client = ClientInit(<<>>)
    /\ lastCall = [handler |-> "", phase |-> "", issuedBy |-> "", status |-> 0,
                   burst |-> <<>>]
    /\ rcalls = 0
    /\ inflight = <<>>
    /\ checklists = <<>> /\ route = "home" /\ pendingDelete = <<>>
    /\ deadlineDrafts = <<>> /\ openDeadlineKey = <<>> /\ displayed = <<>>
    /\ nextListId = 1 /\ nextItemId = 1 /\ lastOp = <<>> /\ calls = 0
    /\ archivedSnap = <<>>
    /\ SortIdle
    /\ DueIdle
    /\ LoadIdle

\* a handler sends its request
Send(req) ==
    /\ Len(inflight) < MaxInFlight
    /\ inflight' = Append(inflight, req)
    /\ lastCall' = [handler |-> req.handler, phase |-> "call", issuedBy |-> req.issuedBy,
                    status |-> 0,
                    burst |-> IF req.mutation.kind = "" THEN lastCall.burst
                              ELSE IF MutationInFlight(inflight)
                              THEN Append(lastCall.burst, req.mutation)
                              ELSE <<req.mutation>>]
    /\ UNCHANGED server

\* the user submits the auth form
FlightAuthSubmit(authMode, email) ==
    /\ rcalls < MaxFlightCalls
    /\ rcalls' = rcalls + 1
    /\ client.sessionReady
    /\ client.currentUser = <<>>
    /\ client' = [client EXCEPT !.authError = <<>>]
    /\ Send(Request("handleAuthSubmit",
                    IF authMode = "login" THEN "POST /auth/login" ELSE "POST /auth/signup",
                    "", [Credentials EXCEPT !.email = email], NoMutation))

\* the effect on [token] runs with a token: it sends GET /me
FlightFetchProfile ==
    /\ ~client.sessionReady
    /\ client.token # <<>>
    /\ \A k \in 1..Len(inflight) :
          inflight[k].handler = "fetchProfile" => inflight[k].cancelled
    /\ UNCHANGED <<client, rcalls>>
    /\ Send(Request("fetchProfile", "GET /me", "", <<>>, NoMutation))

\* the user types a title and submits the create form
FlightCreateChecklist(value) ==
    /\ rcalls < MaxFlightCalls
    /\ rcalls' = rcalls + 1
    /\ SignedIn
    /\ Trim(value) # ""
    /\ client' = [client EXCEPT !.newTitle = value]
    /\ Send(Request("handleCreateChecklist", "POST /checklists", "",
                    ListJ(JUndefined, JString(Trim(value)),
                          JArray(PrefillPayload(client.prefillItems))),
                    NoMutation))

\* the user types a draft and adds it to the checklist
FlightAddItem(listId, value) ==
    /\ rcalls < MaxFlightCalls
    /\ rcalls' = rcalls + 1
    /\ SignedIn
    /\ Trim(value) # ""
    /\ FindTarget(listId) # 0
    /\ client' = [client EXCEPT !.draftItems = PutDraft(client.draftItems, listId, value)]
    /\ Send(Request("handleAddItem", "PUT /checklists/:id", listId,
                    ListJ(JUndefined, JUndefined,
                          JArray(Append(ToJsonItems(TargetItems(listId)),
                                        ItemJ(JUndefined, JString(Trim(value)),
                                              JBool(FALSE))))),
                    Mutation("add", listId, "", FALSE, Trim(value))))

FlightToggleItem(listId, itemId) ==
    /\ rcalls < MaxFlightCalls
    /\ rcalls' = rcalls + 1
    /\ SignedIn
    /\ FindTarget(listId) # 0
    /\ UNCHANGED client
    /\ LET items == TargetItems(listId)
           k == findIndex(items, itemId)
       IN  Send(Request("handleToggleItem", "PUT /checklists/:id", listId,
                        ListJ(JUndefined, JUndefined,
                              JArray(ToJsonItems(
                                  [i \in 1..Len(items) |->
                                      IF items[i].id = itemId
                                      THEN [items[i] EXCEPT !.done = ~items[i].done]
                                      ELSE items[i]]))),
                        Mutation("toggle", listId, itemId,
                                 k # 0 /\ items[k].done, "")))

\* handleLogout sends nothing; the token changes, so the effect is cleaned up
FlightLogout ==
    /\ SignedIn
    /\ client' = [client EXCEPT !.token = <<>>, !.currentUser = <<>>,
                                !.checklists = <<>>, !.newTitle = "",
                                !.prefillItems = "", !.draftItems = <<>>]
    /\ inflight' = CancelProfile(inflight)
    /\ lastCall' = [lastCall EXCEPT !.handler = "handleLogout", !.phase = "call",
                                    !.issuedBy = FlightUser, !.status = 0]
    /\ UNCHANGED <<server, rcalls>>

\* the route a request is for
FlightRoute(srv, req) ==
    CASE req.route = "POST /auth/signup" -> POST_auth_signup(srv, req.body)
      [] req.route = "POST /auth/login" -> POST_auth_login(srv, req.body)
      [] req.route = "GET /me" -> GET_me(srv, req.token)
      [] req.route = "POST /checklists" -> POST_checklists(srv, req.token, req.body)
      [] req.route = "PUT /checklists/:id" ->
            PUT_checklists_id(srv, req.token, req.id, req.body)

\* the ids a route may draw
FlightIds(req) ==
    CASE req.route = "POST /auth/signup" -> 9
      [] req.route = "POST /checklists" -> 3
      [] req.route = "PUT /checklists/:id" -> 1
      [] OTHER -> 0

\* the server answers the k-th request
FlightServe(k) ==
    /\ inflight[k].answer = <<>>
    /\ IdsLeft(server, FlightIds(inflight[k]))
    /\ LET response == FlightRoute(server, inflight[k])
       IN  /\ server' = response.server
           /\ inflight' = [inflight EXCEPT ![k].answer =
                              <<[status |-> response.status, body |-> response.body]>>]
           /\ lastCall' = [lastCall EXCEPT !.handler = inflight[k].handler,
                                           !.phase = "served",
                                           !.issuedBy = inflight[k].issuedBy,
                                           !.status = response.status]
    /\ UNCHANGED <<client, rcalls>>

\* what callApi gives the continuation: it returns the body or throws
FlightResult(answer) ==
    [ok |-> answer.status \in 200..299,
     status |-> answer.status,
     message |-> IF answer.status \in 200..299 THEN "" ELSE answer.body.error,
     body |-> answer.body]

\* the state the continuation of a request leaves
FlightContinue(cl, req, result) ==
    CASE req.handler = "handleAuthSubmit" ->
            IF result.ok
            THEN [cl EXCEPT !.token = <<result.body.token>>,
                            !.currentUser = <<result.body.user>>,
                            !.checklists = result.body.checklists,
                            !.actionError = <<>>,
                            !.sessionReady = FALSE]
            ELSE [cl EXCEPT !.authError = <<result.message>>]
      [] req.handler = "fetchProfile" ->
            IF req.cancelled THEN cl
            ELSE IF result.ok
            THEN [cl EXCEPT !.currentUser = <<result.body.user>>,
                            !.checklists = result.body.checklists,
                            !.actionError = <<>>,
                            !.sessionReady = TRUE]
            ELSE [cl EXCEPT !.currentUser = <<>>, !.checklists = <<>>,
                            !.token = <<>>, !.sessionReady = TRUE]
      [] req.handler = "handleCreateChecklist" ->
            IF result.ok
            THEN [cl EXCEPT !.checklists = <<result.body.checklist>> \o cl.checklists,
                            !.newTitle = "",
                            !.prefillItems = "",
                            !.actionError = <<>>]
            ELSE [cl EXCEPT !.actionError = <<result.message>>]
      [] req.handler = "handleAddItem" ->
            ClearDraft(updateChecklistItems(cl, req.id, result), req.id)
      [] req.handler = "handleToggleItem" ->
            updateChecklistItems(cl, req.id, result)

\* the continuation of the k-th request runs on its response
FlightHandle(k) ==
    /\ inflight[k].answer # <<>>
    /\ LET result == FlightResult(inflight[k].answer[1])
           after == FlightContinue(client, inflight[k], result)
       IN  /\ client' = after
           /\ inflight' = IF after.token # client.token
                          THEN CancelProfile(Settled(inflight, k))
                          ELSE Settled(inflight, k)
           /\ lastCall' = [lastCall EXCEPT !.handler = inflight[k].handler,
                                           !.phase = "handled",
                                           !.issuedBy = inflight[k].issuedBy,
                                           !.status = result.status]
    /\ UNCHANGED <<server, rcalls>>

\* the first items of a shown checklist
FlightItems(listId) ==
    {TargetItems(listId)[i].id : i \in 1..Len(TargetItems(listId))}

FlightStep == UNCHANGED <<appVars, sortVars, dueVars, loadVars>>

FlightNext ==
    \/ FlightStep /\ \E m \in {"login", "signup"}, e \in TenantEmails :
                        FlightAuthSubmit(m, e)
    \/ FlightStep /\ FlightFetchProfile
    \/ FlightStep /\ FlightCreateChecklist(" T ")
    \/ FlightStep /\ \E l \in ShownLists : FlightAddItem(l, " b ")
    \/ FlightStep /\ \E l \in ShownLists : \E i \in FlightItems(l) :
                        FlightToggleItem(l, i)
    \/ FlightStep /\ FlightLogout
    \/ FlightStep /\ \E k \in 1..Len(inflight) : FlightServe(k)
    \/ FlightStep /\ \E k \in 1..Len(inflight) : FlightHandle(k)

SpecFlight == FlightInit /\ [][FlightNext]_vars

(***************************************************************************)
(* Claims about requests in flight (SpecFlight)                            *)
(***************************************************************************)
\* the items of the checklist with this id among these lists
CopyOf(lists, listId) ==
    IF findIndex(lists, listId) = 0 THEN <<>> ELSE lists[findIndex(lists, listId)].items

\* the lists of the first n accounts, one after the other
RECURSIVE AllAccountLists(_, _)
AllAccountLists(srv, n) ==
    IF n = 0 THEN <<>> ELSE AllAccountLists(srv, n - 1) \o srv.users[n].checklists

\* the items show the mutation: the toggled item has the other value of
\* done, the added text is an item that is not done
Reflects(items, m) ==
    IF m.kind = "toggle"
    THEN \E i \in 1..Len(items) : items[i].id = m.item /\ items[i].done = ~m.was
    ELSE \E i \in 1..Len(items) : items[i].text = m.text /\ ~items[i].done

\* the two mutations are of one checklist and not of the same item
PairOnOneList(burst) ==
    /\ Len(burst) = 2
    /\ burst[1].list = burst[2].list
    /\ (burst[1].kind # burst[2].kind \/ burst[1].item # burst[2].item)

\* C23: when two item mutations of one checklist are sent before the first
\* response has been handled, then once both responses have been handled the
\* server's and the client's copy of the checklist reflect both mutations.
C23_BothMutationsKept ==
    [][(/\ lastCall'.phase = "handled"
        /\ lastCall'.handler \in {"handleAddItem", "handleToggleItem"}
        /\ ~MutationInFlight(inflight')
        /\ PairOnOneList(lastCall'.burst)
        /\ client'.currentUser # <<>>
        /\ client'.currentUser[1].id = lastCall'.issuedBy)
          => \A k \in 1..2 :
                /\ Reflects(CopyOf(AllAccountLists(server', Len(server'.users)),
                                   lastCall'.burst[k].list),
                            lastCall'.burst[k])
                /\ Reflects(CopyOf(client'.checklists, lastCall'.burst[k].list),
                            lastCall'.burst[k])]_vars

\* C25: whenever no user is signed in the checklists array is empty, also
\* when responses to requests sent before the logout arrive after it; and a
\* response to a request sent in one session is never applied to the
\* checklists shown in a later session of another account.
C25_NoListsWithoutUser ==
    /\ [](client.currentUser = <<>> => client.checklists = <<>>)
    /\ [][(/\ lastCall'.phase = "handled"
           /\ lastCall'.handler \in MutationHandlers
           /\ client'.checklists # client.checklists)
             => (/\ client.currentUser # <<>>
                 /\ client.currentUser[1].id = lastCall'.issuedBy)]_vars

====
